---------------------------- MODULE Spec2Model ----------------------------
(***************************************************************************)
(* Model of zeek: the menu popup (src/src/menu-popup.ts) with its line     *)
(* editor (src/src/line-editor.ts), the two popups built on it (command    *)
(* history, file search) and the zsh tokenizer.                            *)
(*                                                                         *)
(* A JavaScript string is a sequence of one-character strings.  An         *)
(* optional value (string | undefined) is a sequence of length 0 or 1.     *)
(* List indexes are 0-based as in the source: index i of a JavaScript      *)
(* array is element i + 1 of the sequence.                                 *)
(***************************************************************************)
EXTENDS Integers, Sequences, FiniteSets, TLC

-----------------------------------------------------------------------------
(* Bounds of the model *)

\* Longest query line the keyboard actions build
MaxLine == 3

\* The popup is explored until the result handler has run this many times
MaxCalls == 2

-----------------------------------------------------------------------------
(* Characters and strings *)

LowerLetters == {"a", "b", "c", "d", "e", "f", "g", "h", "i", "j", "k", "l", "m", "n", "o", "p", "q", "r", "s", "t", "u", "v", "w", "x", "y", "z"}

UpperLetters == {"A", "B", "C", "D", "E", "F", "G", "H", "I", "J", "K", "L", "M", "N", "O", "P", "Q", "R", "S", "T", "U", "V", "W", "X", "Y", "Z"}

Digits == {"0", "1", "2", "3", "4", "5", "6", "7", "8", "9"}


\* String.prototype.toLowerCase, one character
ToLowerChar(c) ==
    LET LowerOf ==
            ("A" :> "a") @@ ("B" :> "b") @@ ("C" :> "c") @@ ("D" :> "d") @@ ("E" :> "e") @@ ("F" :> "f") @@
            ("G" :> "g") @@ ("H" :> "h") @@ ("I" :> "i") @@ ("J" :> "j") @@ ("K" :> "k") @@ ("L" :> "l") @@
            ("M" :> "m") @@ ("N" :> "n") @@ ("O" :> "o") @@ ("P" :> "p") @@ ("Q" :> "q") @@ ("R" :> "r") @@
            ("S" :> "s") @@ ("T" :> "t") @@ ("U" :> "u") @@ ("V" :> "v") @@ ("W" :> "w") @@ ("X" :> "x") @@
            ("Y" :> "y") @@ ("Z" :> "z")
    IN  IF c \in UpperLetters THEN LowerOf[c] ELSE c

\* String.prototype.toLowerCase
ToLowerCase(s) == [i \in 1..Len(s) |-> ToLowerChar(s[i])]

\* s.slice(from) with 0-based from
SliceFrom(s, from) == SubSeq(s, from + 1, Len(s))

\* s.slice(from, to) with 0-based from, exclusive to, both clamped to the length
Slice(s, from, to) == SubSeq(s, from + 1, IF to > Len(s) THEN Len(s) ELSE to)

\* s.slice(0, -1)
DropLast(s) == SubSeq(s, 1, Len(s) - 1)

\* s.startsWith(p)
StartsWith(s, p) == Len(p) <= Len(s) /\ SubSeq(s, 1, Len(p)) = p

\* String.prototype.includes
Includes(text, w) == \E i \in 0..(Len(text) - Len(w)) : SubSeq(text, i + 1, i + Len(w)) = w

\* 0-based index of the first occurrence of character c in s, or -1
IndexOfChar(s, c) ==
    IF \E i \in 1..Len(s) : s[i] = c
    THEN (CHOOSE i \in 1..Len(s) : s[i] = c /\ \A j \in 1..(i - 1) : s[j] # c) - 1
    ELSE -1

RECURSIVE SplitOn(_, _)
\* s.split(c) for a one-character separator
SplitOn(s, c) ==
    LET i == IndexOfChar(s, c)
    IN  IF i < 0 THEN <<s>>
        ELSE <<SubSeq(s, 1, i)>> \o SplitOn(SliceFrom(s, i + 1), c)

WhiteSpace == {" ", "\t", "\n", "\r"}

RECURSIVE TrimStart(_)
TrimStart(s) == IF Len(s) > 0 /\ s[1] \in WhiteSpace THEN TrimStart(Tail(s)) ELSE s

RECURSIVE TrimEnd(_)
TrimEnd(s) == IF Len(s) > 0 /\ s[Len(s)] \in WhiteSpace THEN TrimEnd(DropLast(s)) ELSE s

\* String.prototype.trim
Trim(s) == TrimEnd(TrimStart(s))

RECURSIVE Flatten(_)
\* The strings of a list, one after the other
Flatten(list) == IF Len(list) = 0 THEN <<>> ELSE list[1] \o Flatten(Tail(list))

RECURSIVE JoinWith(_, _)
\* parts.join(sep)
JoinWith(parts, sep) ==
    IF Len(parts) = 0 THEN <<>>
    ELSE IF Len(parts) = 1 THEN parts[1]
    ELSE parts[1] \o sep \o JoinWith(Tail(parts), sep)

\* Optional values: undefined and a defined value
Undefined == <<>>
Some(v) == <<v>>
IsDefined(o) == Len(o) = 1

\* JavaScript truthiness of a string | undefined
TruthyLine(o) == IsDefined(o) /\ Len(o[1]) > 0

\* array[i] for a 0-based index: undefined outside the array
ItemAt(arr, i) == IF i >= 0 /\ i < Len(arr) THEN Some(arr[i + 1]) ELSE Undefined

-----------------------------------------------------------------------------
(* Line editor: src/src/line-editor.ts *)

EDITOR_KEYS == {"delete", "left", "right", "home", "end"}

\* Control characters are named; every other character is printable
BACKSPACE1 == "^H"
BACKSPACE2 == "DEL"
CTRL_A == "^A"
CTRL_E == "^E"
ControlCode == ("^A" :> 1) @@ ("^E" :> 5) @@ ("^H" :> 8) @@ ("\t" :> 9) @@ ("\n" :> 10) @@ ("\r" :> 13) @@ ("^[" :> 27) @@ ("DEL" :> 127)

\* ch.charCodeAt(0); the printable characters of the model are all >= 32
CharCodeAt0(ch) == IF ch \in DOMAIN ControlCode THEN ControlCode[ch] ELSE 32

\* Key events as the keypress library delivers them: ch = "" is undefined
MetaKey(n) == [ch |-> "", name |-> n, meta |-> TRUE]
KeypressKey(c, n) == [ch |-> c, name |-> n, meta |-> FALSE]

isLineEditKey(ch, key) ==
    \/ ch = "" /\ key.name \in EDITOR_KEYS
    \/ key.meta /\ key.name \in {"b", "f"}
    \/ ch = BACKSPACE1
    \/ ch = CTRL_A
    \/ ch = CTRL_E
    \/ ch # "" /\ CharCodeAt0(ch) >= 32

\* An isBackspace that knows one of the two codes
isBackspaceOne(ch) == ch = BACKSPACE1

isBackspace(ch) == ch = BACKSPACE1 \/ ch = BACKSPACE2

isLetterOrNum(ch) == ch \in Digits \/ ch \in LowerLetters \/ ch \in UpperLetters

\* str[pos] for a 0-based position: undefined (not a letter or digit) outside
CharAt(str, pos) == IF pos >= 0 /\ pos < Len(str) THEN str[pos + 1] ELSE ""

isStartOfWord(str, pos) ==
    IF pos <= 0 THEN TRUE
    ELSE isLetterOrNum(CharAt(str, pos)) /\ ~isLetterOrNum(CharAt(str, pos - 1))

isEndOfWord(str, pos) ==
    IF pos >= Len(str) THEN TRUE
    ELSE ~isLetterOrNum(CharAt(str, pos)) /\ isLetterOrNum(CharAt(str, pos - 1))

\* A goHome that forgets what was right of the cursor
goHomeOfLeft(ed) == [left |-> <<>>, right |-> ed.left]

goHome(ed) == [left |-> <<>>, right |-> ed.left \o ed.right]

goEnd(ed) == [left |-> ed.left \o ed.right, right |-> <<>>]

\* A backwardWord that takes the character before the cursor for a word start
backwardWordByOne(ed) ==
    IF Len(ed.left) = 0 THEN ed
    ELSE [left |-> DropLast(ed.left), right |-> <<ed.left[Len(ed.left)]>> \o ed.right]

backwardWord(ed) ==
    IF Len(ed.left) = 0 THEN ed
    ELSE LET starts == {p \in 0..(Len(ed.left) - 1) : isStartOfWord(ed.left, p)}
             pos == CHOOSE p \in starts : \A q \in starts : q <= p
         IN  [left |-> SubSeq(ed.left, 1, pos),
              right |-> SliceFrom(ed.left, pos) \o ed.right]

\* A forwardWord that takes the character after the cursor for a word end
forwardWordByOne(ed) ==
    IF Len(ed.right) = 0 THEN ed
    ELSE [left |-> Append(ed.left, ed.right[1]), right |-> Tail(ed.right)]

forwardWord(ed) ==
    IF Len(ed.right) = 0 THEN ed
    ELSE LET ends == {p \in 1..Len(ed.right) : isEndOfWord(ed.right, p)}
             pos == CHOOSE p \in ends : \A q \in ends : p <= q
         IN  [left |-> ed.left \o SubSeq(ed.right, 1, pos),
              right |-> SliceFrom(ed.right, pos)]

handleNavigationKey(ed, key) ==
    CASE key.name = "delete" ->
            IF Len(ed.right) > 0 THEN [ed EXCEPT !.right = Tail(ed.right)] ELSE ed
      [] key.name = "left" ->
            IF Len(ed.left) <= 0 THEN ed
            ELSE [left |-> DropLast(ed.left),
                  right |-> <<ed.left[Len(ed.left)]>> \o ed.right]
      [] key.name = "right" ->
            IF Len(ed.right) <= 0 THEN ed
            ELSE [left |-> Append(ed.left, ed.right[1]), right |-> Tail(ed.right)]
      [] key.name = "home" -> goHome(ed)
      [] key.name = "end" -> goEnd(ed)
      [] key.name = "b" -> IF key.meta THEN backwardWord(ed) ELSE ed
      [] key.name = "f" -> IF key.meta THEN forwardWord(ed) ELSE ed
      [] OTHER -> ed

\* An editLine that puts a typed character at the end of the line
editLineAtEnd(ed, ch, key) ==
    IF ch = "" THEN handleNavigationKey(ed, key)
    ELSE IF isBackspace(ch) THEN [ed EXCEPT !.left = DropLast(ed.left)]
    ELSE IF ch = CTRL_A THEN goHome(ed)
    ELSE IF ch = CTRL_E THEN goEnd(ed)
    ELSE [ed EXCEPT !.right = Append(ed.right, ch)]

editLine(ed, ch, key) ==
    IF ch = "" THEN handleNavigationKey(ed, key)
    ELSE IF isBackspace(ch) THEN [ed EXCEPT !.left = DropLast(ed.left)]
    ELSE IF ch = CTRL_A THEN goHome(ed)
    ELSE IF ch = CTRL_E THEN goEnd(ed)
    ELSE [ed EXCEPT !.left = Append(ed.left, ch)]

getLine(ed) == ed.left \o ed.right

setLine(ed, line) == [left |-> line, right |-> <<>>]

\* new LineEditor(initialLine, row)
NewLineEditor(initialLine) == [left |-> initialLine, right |-> <<>>]

\* A getCursorPosition that counts columns from 0
getCursorPositionFrom0(ed) == [col |-> Len(ed.left)]

\* getCursorPosition; the row is the one the editor was given
getCursorPosition(ed) == [col |-> Len(ed.left) + 1]

-----------------------------------------------------------------------------
(* Filter engine and selection: src/src/menu-popup.ts *)

NO_MATCHES == <<"#", " ", "N", "o", " ", "m", "a", "t", "c", "h", "e", "s">>

GRAPHIC_NEWLINE == "<NL>"

\* line.replaceAll(GRAPHIC_NEWLINE, '\n')
RestoreNewlines(line) == [i \in 1..Len(line) |-> IF line[i] = GRAPHIC_NEWLINE THEN "\n" ELSE line[i]]

\* Column of the file name in a file list line
FileNameCol == 49

getFileNameFromLine(line) == Trim(SliceFrom(line, FileNameCol))

\* The popup's optional getFilterText, by kind of popup
FilterText(k, item) == IF k = "fileSearch" THEN getFileNameFromLine(item) ELSE item

\* multiMatch accepting a line that contains any one of the words
multiMatchAny(line, words) == \E i \in 1..Len(words) : Includes(line, words[i])

multiMatch(line, words) == \A i \in 1..Len(words) : Includes(line, words[i])

filterItems(k, its, filter) ==
    LET words == SplitOn(ToLowerCase(filter), " ")
    IN  SelectSeq(its, LAMBDA item : multiMatch(ToLowerCase(FilterText(k, item)), words))

\* updateMenu: the filtered list handed to the menu
UpdatedItems(k, its, line) ==
    LET f == filterItems(k, its, line)
    IN  IF Len(f) = 0 THEN <<NO_MATCHES>> ELSE f

\* updateMenu: the selection handed to the menu
UpdatedSelection(k, filtered) == Len(filtered) - 1

\* selectionAtStart, set by openFileSearchPopup and left false by the history popups
SelectionAtStart(k) == k = "fileSearch"

\* setItems and createMenu: the selection handed to the menu
InitialSelection(k, its) == IF SelectionAtStart(k) THEN 0 ELSE Len(its) - 1

\* onNavigate is registered by openFileSearchPopup; a "custom" popup stands for
\* any caller that registers a callback of the declared type
HasOnNavigate(k) == k \in {"fileSearch", "custom"}

-----------------------------------------------------------------------------
(* File lists and paths: the file system is the environment *)

\* One line of getFileList: permissions, user, size, date, time, name
FileLine(isDir, name) ==
    LET LineFiller ==
            <<"r", "w", "x", "r", "-", "x", "r", "-", "x", " ", " ", "u",
              "s", "e", "r", " ", " ", " ", " ", " ", " ", " ", " ", "3",
              ".", "2", " ", "K", " ", " ", "1", "8", "/", "0", "1", "/",
              "2", "0", "2", "6", " ", "2", "2", ":", "0", "5", " ", " ">>
    IN  <<IF isDir THEN "d" ELSE "-">> \o LineFiller \o name \o <<" ">>

\* Absolute paths are sequences of names; the root is the empty sequence
RootPath == <<>>
DirAB == <<"a", "b">>
DirE == <<"e">>

\* The directories of the model's file system and what readdir returns
Dirs == {RootPath, <<DirAB>>, <<DirAB, DirE>>}

DirEntries(p) ==
    IF p = RootPath THEN <<[name |-> DirAB, isDir |-> TRUE], [name |-> <<"A", "c">>, isDir |-> FALSE]>>
    ELSE IF p = <<DirAB>> THEN <<[name |-> DirE, isDir |-> TRUE], [name |-> <<"b">>, isDir |-> FALSE]>>
    ELSE <<>>

\* getFileList(dir) when the directory can be read
getFileList(p) ==
    LET es == DirEntries(p)
    IN  [i \in 1..Len(es) |-> FileLine(es[i].isDir, es[i].name)]

\* process.cwd()
Cwd == <<DirAB>>

\* The path as a string
PathString(p) == IF Len(p) = 0 THEN <<"/">> ELSE <<"/">> \o JoinWith(p, <<"/">>)

RECURSIVE CommonPrefixLen(_, _)
CommonPrefixLen(a, b) ==
    IF Len(a) > 0 /\ Len(b) > 0 /\ a[1] = b[1] THEN 1 + CommonPrefixLen(Tail(a), Tail(b)) ELSE 0

\* path.relative(from, to) for absolute normalized paths
PathRelative(from, to) ==
    LET k == CommonPrefixLen(from, to)
        ups == [i \in 1..(Len(from) - k) |-> <<".", ".">>]
    IN  JoinWith(ups \o SubSeq(to, k + 1, Len(to)), <<"/">>)

\* path.dirname of an absolute path
PathDirname(p) == IF Len(p) = 0 THEN p ELSE DropLast(p)

\* path.join(dir, name) for a single name
PathJoin(p, name) == Append(p, name)

exitHandlerLine(prefix, path, suffix) ==
    LET sep == IF StartsWith(suffix, <<" ">>) THEN <<>> ELSE <<" ">>
    IN  prefix \o path \o sep \o <<"\t">> \o suffix

singleMatch(fileList, file) ==
    LET fileNames == [i \in 1..Len(fileList) |-> getFileNameFromLine(fileList[i])]
        matches == SelectSeq(fileNames, LAMBDA f : StartsWith(ToLowerCase(f), ToLowerCase(file)))
    IN  IF Len(matches) = 1 THEN Some(matches[1]) ELSE Undefined

-----------------------------------------------------------------------------
(* Tokenizer: src/src/zsh-tokenizer/zsh-tokenizer.ts *)

RESERVED_WORDS ==
    {<<"i", "f">>, <<"t", "h", "e", "n">>, <<"e", "l", "s", "e">>, <<"e", "l", "i", "f">>, 
     <<"f", "i">>, <<"c", "a", "s", "e">>, <<"e", "s", "a", "c">>, <<"f", "o", "r">>, 
     <<"s", "e", "l", "e", "c", "t">>, <<"w", "h", "i", "l", "e">>, <<"u", "n", "t", "i", "l">>, 
     <<"d", "o">>, <<"d", "o", "n", "e">>, <<"i", "n">>, 
     <<"f", "u", "n", "c", "t", "i", "o", "n">>, <<"t", "i", "m", "e">>, 
     <<"c", "o", "p", "r", "o", "c">>, <<"[", "[">>, <<"]", "]">>, <<"{">>, <<"}">>, <<"!">>, 
     <<"f", "o", "r", "e", "a", "c", "h">>, <<"e", "n", "d">>, <<"r", "e", "p", "e", "a", "t">>, 
     <<"n", "o", "c", "o", "r", "r", "e", "c", "t">>, <<"a", "l", "w", "a", "y", "s">>}

BUILTINS ==
    {<<".">>, <<":">>, <<"a", "l", "i", "a", "s">>, <<"a", "u", "t", "o", "l", "o", "a", "d">>, 
     <<"b", "g">>, <<"b", "i", "n", "d", "k", "e", "y">>, <<"b", "r", "e", "a", "k">>, 
     <<"b", "u", "i", "l", "t", "i", "n">>, <<"b", "y", "e">>, <<"c", "a", "p">>, <<"c", "d">>, 
     <<"c", "h", "d", "i", "r">>, <<"c", "l", "o", "n", "e">>, 
     <<"c", "o", "m", "m", "a", "n", "d">>, 
     <<"c", "o", "m", "p", "a", "r", "g", "u", "m", "e", "n", "t", "s">>, 
     <<"c", "o", "m", "p", "c", "a", "l", "l">>, <<"c", "o", "m", "p", "c", "t", "l">>, 
     <<"c", "o", "m", "p", "d", "e", "s", "c", "r", "i", "b", "e">>, 
     <<"c", "o", "m", "p", "f", "i", "l", "e", "s">>, 
     <<"c", "o", "m", "p", "g", "r", "o", "u", "p", "s">>, 
     <<"c", "o", "m", "p", "q", "u", "o", "t", "e">>, 
     <<"c", "o", "m", "p", "t", "a", "g", "s">>, <<"c", "o", "m", "p", "t", "r", "y">>, 
     <<"c", "o", "m", "p", "v", "a", "l", "u", "e", "s">>, 
     <<"c", "o", "n", "t", "i", "n", "u", "e">>, <<"d", "e", "c", "l", "a", "r", "e">>, 
     <<"d", "i", "r", "s">>, <<"d", "i", "s", "a", "b", "l", "e">>, 
     <<"d", "i", "s", "o", "w", "n">>, <<"e", "c", "h", "o">>, <<"e", "c", "h", "o", "t", "c">>, 
     <<"e", "c", "h", "o", "t", "i">>, <<"e", "m", "u", "l", "a", "t", "e">>, 
     <<"e", "n", "a", "b", "l", "e">>, <<"e", "v", "a", "l">>, <<"e", "x", "e", "c">>, 
     <<"e", "x", "i", "t">>, <<"e", "x", "p", "o", "r", "t">>, <<"f", "a", "l", "s", "e">>, 
     <<"f", "c">>, <<"f", "g">>, <<"f", "l", "o", "a", "t">>, 
     <<"f", "u", "n", "c", "t", "i", "o", "n", "s">>, <<"g", "e", "t", "c", "a", "p">>, 
     <<"g", "e", "t", "l", "n">>, <<"g", "e", "t", "o", "p", "t", "s">>, <<"h", "a", "s", "h">>, 
     <<"h", "i", "s", "t", "o", "r", "y">>, <<"i", "n", "t", "e", "g", "e", "r">>, 
     <<"j", "o", "b", "s">>, <<"k", "i", "l", "l">>, <<"l", "e", "t">>, 
     <<"l", "i", "m", "i", "t">>, <<"l", "o", "c", "a", "l">>, <<"l", "o", "g">>, 
     <<"l", "o", "g", "o", "u", "t">>, <<"n", "o", "g", "l", "o", "b">>, <<"p", "o", "p", "d">>, 
     <<"p", "r", "i", "n", "t">>, <<"p", "r", "i", "n", "t", "f">>, <<"p", "u", "s", "h", "d">>, 
     <<"p", "u", "s", "h", "l", "n">>, <<"p", "w", "d">>, <<"r">>, <<"r", "e", "a", "d">>, 
     <<"r", "e", "a", "d", "o", "n", "l", "y">>, <<"r", "e", "h", "a", "s", "h">>, 
     <<"r", "e", "t", "u", "r", "n">>, <<"s", "c", "h", "e", "d">>, <<"s", "e", "t">>, 
     <<"s", "e", "t", "c", "a", "p">>, <<"s", "e", "t", "o", "p", "t">>, 
     <<"s", "h", "i", "f", "t">>, <<"s", "o", "u", "r", "c", "e">>, <<"s", "t", "a", "t">>, 
     <<"s", "u", "s", "p", "e", "n", "d">>, <<"t", "e", "s", "t">>, <<"t", "i", "m", "e", "s">>, 
     <<"t", "r", "a", "p">>, <<"t", "r", "u", "e">>, <<"t", "t", "y", "c", "t", "l">>, 
     <<"t", "y", "p", "e">>, <<"t", "y", "p", "e", "s", "e", "t">>, 
     <<"u", "l", "i", "m", "i", "t">>, <<"u", "m", "a", "s", "k">>, 
     <<"u", "n", "a", "l", "i", "a", "s">>, 
     <<"u", "n", "f", "u", "n", "c", "t", "i", "o", "n">>, <<"u", "n", "h", "a", "s", "h">>, 
     <<"u", "n", "l", "i", "m", "i", "t">>, <<"u", "n", "s", "e", "t">>, 
     <<"u", "n", "s", "e", "t", "o", "p", "t">>, <<"v", "a", "r", "e", "d">>, 
     <<"w", "a", "i", "t">>, <<"w", "h", "e", "n", "c", "e">>, <<"w", "h", "e", "r", "e">>, 
     <<"w", "h", "i", "c", "h">>, <<"z", "c", "o", "m", "p", "i", "l", "e">>, 
     <<"z", "f", "o", "r", "m", "a", "t">>, <<"z", "f", "t", "p">>, <<"z", "l", "e">>, 
     <<"z", "m", "o", "d", "l", "o", "a", "d">>, 
     <<"z", "p", "a", "r", "s", "e", "o", "p", "t", "s">>, <<"z", "p", "r", "o", "f">>, 
     <<"z", "p", "t", "y">>, <<"z", "r", "e", "g", "e", "x", "p", "a", "r", "s", "e">>, 
     <<"z", "s", "o", "c", "k", "e", "t">>, <<"z", "s", "t", "y", "l", "e">>, 
     <<"z", "t", "c", "p">>}

PRECOMMANDS ==
    {<<"b", "u", "i", "l", "t", "i", "n">>, <<"c", "o", "m", "m", "a", "n", "d">>, 
     <<"e", "x", "e", "c">>, <<"n", "o", "c", "o", "r", "r", "e", "c", "t">>, 
     <<"n", "o", "g", "l", "o", "b">>, <<"p", "k", "e", "x", "e", "c">>, <<"s", "u", "d", "o">>, 
     <<"d", "o", "a", "s">>, <<"-">>}

\* The backquote character
BACKQUOTE == "BQ"

\* The redirection operators with the two-character &> tried before &>>
REDIRECTION_PATTERNS_ShortFirst ==
    <<<<"&", ">">>, <<"&", ">", ">">>, <<"<", "<", "<">>, <<"<", ">">>, <<">", ">", "!">>,
      <<">", ">", "|">>, <<">", ">">>, <<">", "&">>, <<">", "!">>, <<">", "|">>, <<"<", "&">>,
      <<"<">>, <<">">>>>

\* Redirection operators in the order they are tried
REDIRECTION_PATTERNS ==
    <<<<"&", ">", ">">>, <<"&", ">">>, <<"<", "<", "<">>, <<"<", ">">>, <<">", ">", "!">>,
      <<">", ">", "|">>, <<">", ">">>, <<">", "&">>, <<">", "!">>, <<">", "|">>, <<"<", "&">>,
      <<"<">>, <<">">>>>

\* The first of the patterns, in order, that s starts with; optional
FirstPrefix(patterns, s) ==
    LET hits == {k \in 1..Len(patterns) : StartsWith(s, patterns[k])}
    IN  IF hits = {} THEN Undefined
        ELSE Some(patterns[CHOOSE k \in hits : \A j \in hits : k <= j])

\* The regular expression class \s
IsSpace(ch) == ch \in WhiteSpace

\* The regular expression class \d
IsDigit(ch) == ch \in Digits

\* The regular expression class [a-zA-Z_]
IsIdentStart(ch) == ch \in LowerLetters \/ ch \in UpperLetters \/ ch = "_"

\* Membership of a character in a regular expression class
InClass(cls, ch) ==
    CASE cls = "\\d" -> IsDigit(ch)
      [] cls = "[a-zA-Z0-9_]" -> IsIdentStart(ch) \/ IsDigit(ch)
      [] cls = "[^?]" -> ch # "?"

RECURSIVE RunEnd(_, _, _)
\* The position after the longest run of characters of class cls from i
RunEnd(input, i, cls) ==
    IF i < Len(input) /\ InClass(cls, CharAt(input, i)) THEN RunEnd(input, i + 1, cls) ELSE i

\* The longer separators are tried first, each list in its order
matchCommandSeparator(input, pos) ==
    LET long == FirstPrefix(<<<<";", ";">>, <<";", "&">>, <<";", "|">>, <<"&", "&">>,
                              <<"|", "|">>, <<"|", "&">>, <<"&", "!">>, <<"&", "|">>>>,
                            Slice(input, pos, pos + 2))
    IN  IF IsDefined(long) THEN long
        ELSE FirstPrefix(<<<<";">>, <<"|">>, <<"&">>>>, Slice(input, pos, pos + 1))

matchRedirection(input, pos) ==
    LET checkPos == RunEnd(input, pos, "\\d")
        numPrefix == Slice(input, pos, checkPos)
        match == FirstPrefix(REDIRECTION_PATTERNS, SliceFrom(input, checkPos))
    IN  IF IsDefined(match) THEN Some(numPrefix \o match[1]) ELSE Undefined

RECURSIVE ParenScan(_, _, _)
\* while (i < input.length && depth > 0): count parentheses, i++
ParenScan(input, i, depth) ==
    IF i < Len(input) /\ depth > 0
    THEN ParenScan(input, i + 1,
                   IF CharAt(input, i) = "(" THEN depth + 1
                   ELSE IF CharAt(input, i) = ")" THEN depth - 1
                   ELSE depth)
    ELSE [i |-> i, depth |-> depth]

matchProcessSubstitution(input, pos) ==
    LET r == ParenScan(input, pos + 2, 1)
    IN  [text |-> Slice(input, pos, r.i), unclosed |-> r.depth > 0]

RECURSIVE ArithScan(_, _, _)
\* As ParenScan, but a parenthesis after a backslash is not counted
ArithScan(input, i, depth) ==
    IF i < Len(input) /\ depth > 0
    THEN ArithScan(input, i + 1,
                   IF CharAt(input, i) = "(" /\ CharAt(input, i - 1) # "\\" THEN depth + 1
                   ELSE IF CharAt(input, i) = ")" /\ CharAt(input, i - 1) # "\\" THEN depth - 1
                   ELSE depth)
    ELSE [i |-> i, depth |-> depth]

matchArithmeticExpansion(input, pos) ==
    LET r == ArithScan(input, pos + 3, 2)
    IN  [text |-> Slice(input, pos, r.i), unclosed |-> r.depth > 0]

RECURSIVE QuoteSkip(_, _, _, _)
\* while (i < input.length && input[i] !== quote): skip, a backslash skipping
\* one more character when the quote honours escapes
QuoteSkip(input, i, quote, escapes) ==
    IF i < Len(input) /\ CharAt(input, i) # quote
    THEN QuoteSkip(input, IF CharAt(input, i) = "\\" /\ escapes THEN i + 2 ELSE i + 1,
                   quote, escapes)
    ELSE i

RECURSIVE CmdSubstScanPlain(_, _, _)
\* A scan that counts the parentheses of quoted regions too
CmdSubstScanPlain(input, i, depth) ==
    IF i < Len(input) /\ depth > 0
    THEN CmdSubstScanPlain(input, i + 1,
                           IF CharAt(input, i) = "(" THEN depth + 1
                           ELSE IF CharAt(input, i) = ")" THEN depth - 1
                           ELSE depth)
    ELSE [i |-> i, depth |-> depth]

RECURSIVE CmdSubstScan(_, _, _)
\* The loop of matchCommandSubstitution: quoted regions are skipped whole
CmdSubstScan(input, i, depth) ==
    IF i < Len(input) /\ depth > 0
    THEN LET ch == CharAt(input, i)
         IN  IF ch \in {"'", "\"", BACKQUOTE}
             THEN CmdSubstScan(input, QuoteSkip(input, i + 1, ch, ch # "'") + 1, depth)
             ELSE CmdSubstScan(input, i + 1,
                               IF ch = "(" THEN depth + 1
                               ELSE IF ch = ")" THEN depth - 1
                               ELSE depth)
    ELSE [i |-> i, depth |-> depth]

\* matchCommandSubstitution without the skipping of quoted regions
matchCommandSubstitutionPlain(input, pos) ==
    [text |-> Slice(input, pos, CmdSubstScanPlain(input, pos + 2, 1).i),
     unclosed |-> CmdSubstScanPlain(input, pos + 2, 1).depth > 0]

matchCommandSubstitution(input, pos) ==
    LET r == CmdSubstScan(input, pos + 2, 1)
    IN  [text |-> Slice(input, pos, r.i), unclosed |-> r.depth > 0]

RECURSIVE EscapedQuoteEnd(_, _, _)
\* The position of the closing delimiter scanning from i with backslash
\* escapes, or -1 when the input ends first
EscapedQuoteEnd(input, i, close) ==
    IF i < Len(input)
    THEN IF CharAt(input, i) = "\\" THEN EscapedQuoteEnd(input, i + 2, close)
         ELSE IF CharAt(input, i) = close THEN i
         ELSE EscapedQuoteEnd(input, i + 1, close)
    ELSE -1

\* A quoted-string matcher that reports every string as closed
QuotedResultClosed(input, pos, e) ==
    IF e >= 0 THEN [text |-> Slice(input, pos, e + 1), unclosed |-> FALSE]
    ELSE [text |-> SliceFrom(input, pos), unclosed |-> FALSE]

\* The result of a quoted-string matcher whose closing delimiter is at e
QuotedResult(input, pos, e) ==
    IF e >= 0 THEN [text |-> Slice(input, pos, e + 1), unclosed |-> FALSE]
    ELSE [text |-> SliceFrom(input, pos), unclosed |-> TRUE]

matchDollarQuotedString(input, pos) ==
    QuotedResult(input, pos, EscapedQuoteEnd(input, pos + 2, "'"))

RECURSIVE PlainQuoteEnd(_, _, _)
\* The position of the closing delimiter scanning from i without escapes, or -1
PlainQuoteEnd(input, i, close) ==
    IF i < Len(input)
    THEN IF CharAt(input, i) = close THEN i ELSE PlainQuoteEnd(input, i + 1, close)
    ELSE -1

matchSingleQuotedString(input, pos) ==
    QuotedResult(input, pos, PlainQuoteEnd(input, pos + 1, "'"))

matchDoubleQuotedString(input, pos) ==
    QuotedResult(input, pos, EscapedQuoteEnd(input, pos + 1, "\""))

matchBacktickSubstitution(input, pos) ==
    QuotedResult(input, pos, EscapedQuoteEnd(input, pos + 1, BACKQUOTE))

matchHistoryExpansion(input, pos) ==
    LET c1 == CharAt(input, pos + 1)
        c2 == CharAt(input, pos + 2)
    IN  IF CharAt(input, pos) # "!" THEN Undefined
        ELSE IF c1 \in {"!", "$", "^", "*"} THEN Some(<<"!", c1>>)
        ELSE IF c1 = "-" /\ IsDigit(c2)
        THEN Some(Slice(input, pos, RunEnd(input, pos + 2, "\\d")))
        ELSE IF IsDigit(c1)
        THEN Some(Slice(input, pos, RunEnd(input, pos + 1, "\\d")))
        ELSE IF c1 = "?" /\ pos + 2 < Len(input) /\ c2 # "?"
        THEN LET e == RunEnd(input, pos + 2, "[^?]")
             IN  Some(Slice(input, pos, IF CharAt(input, e) = "?" THEN e + 1 ELSE e))
        ELSE IF IsIdentStart(c1)
        THEN Some(Slice(input, pos, RunEnd(input, pos + 2, "[a-zA-Z0-9_]")))
        ELSE Undefined

\* The markers that open an extended glob group
EXTGLOB_MARKERS == {"@", "?", "*", "+", "!"}

RECURSIVE GlobParenEnd(_, _, _)
\* matchWord's scan for the parenthesis closing a group: i stops on it
GlobParenEnd(input, i, depth) ==
    IF i < Len(input) /\ depth > 0
    THEN LET d == IF CharAt(input, i) = "(" THEN depth + 1
                  ELSE IF CharAt(input, i) = ")" THEN depth - 1
                  ELSE depth
         IN  IF d > 0 THEN GlobParenEnd(input, i + 1, d) ELSE i
    ELSE i

\* if (i < input.length) i++
SkipIfInside(input, i) == IF i < Len(input) THEN i + 1 ELSE i

RECURSIVE WordScan(_, _, _)
\* The loop of matchWord: the position where the word that starts at pos ends
WordScan(input, pos, i) ==
    IF i >= Len(input) THEN i
    ELSE LET ch == CharAt(input, i)
         IN  IF ch \in {" ", "\t", "\n", ";", "&", "|", "<", ">", "#"} THEN i
             ELSE IF ch \in {"(", ")"}
             THEN IF /\ i > pos
                     /\ ch = "("
                     /\ (CharAt(input, i - 1) = "$" \/ CharAt(input, i - 1) \in EXTGLOB_MARKERS)
                  THEN WordScan(input, pos, SkipIfInside(input, GlobParenEnd(input, i + 1, 1)))
                  ELSE i
             ELSE IF ch \in {"\"", "'", BACKQUOTE}
             THEN WordScan(input, pos,
                           SkipIfInside(input, QuoteSkip(input, i + 1, ch, ch # "'")))
             ELSE IF ch = "$" /\ CharAt(input, i + 1) = "'"
             THEN WordScan(input, pos, SkipIfInside(input, QuoteSkip(input, i + 2, "'", TRUE)))
             ELSE IF ch = "$" /\ CharAt(input, i + 1) = "("
             THEN WordScan(input, pos, ParenScan(input, i + 2, 1).i)
             ELSE IF ch = "\\" /\ i + 1 < Len(input)
             THEN WordScan(input, pos, i + 2)
             ELSE WordScan(input, pos, i + 1)

matchWord(input, pos) == Slice(input, pos, WordScan(input, pos, pos))

RECURSIVE GlobScan(_, _, _, _)
\* The loop of containsGlob
GlobScan(w, i, inSingleQuote, inDoubleQuote) ==
    IF i >= Len(w) THEN FALSE
    ELSE LET ch == CharAt(w, i)
         IN  IF ch = "\\" /\ ~inSingleQuote THEN GlobScan(w, i + 2, inSingleQuote, inDoubleQuote)
             ELSE IF ch = "'" /\ ~inDoubleQuote
             THEN GlobScan(w, i + 1, ~inSingleQuote, inDoubleQuote)
             ELSE IF ch = "\"" /\ ~inSingleQuote
             THEN GlobScan(w, i + 1, inSingleQuote, ~inDoubleQuote)
             ELSE IF ~inSingleQuote /\ ~inDoubleQuote
                     /\ \/ ch \in {"*", "?"}
                        \/ ch = "[" /\ IndexOfChar(SliceFrom(w, i + 1), "]") # -1
                        \/ ch \in EXTGLOB_MARKERS /\ i + 1 < Len(w) /\ CharAt(w, i + 1) = "("
             THEN TRUE
             ELSE GlobScan(w, i + 1, inSingleQuote, inDoubleQuote)

containsGlob(w) == GlobScan(w, 0, FALSE, FALSE)

looksLikePath(w) ==
    \/ StartsWith(w, <<"/">>)
    \/ StartsWith(w, <<".", "/">>)
    \/ StartsWith(w, <<".", ".", "/">>)
    \/ StartsWith(w, <<"~", "/">>)

\* The regular expression ^[a-zA-Z_][a-zA-Z0-9_]*\+?= of classifyWord
IsAssignment(w) ==
    /\ IsIdentStart(CharAt(w, 0))
    /\ LET e == RunEnd(w, 1, "[a-zA-Z0-9_]")
           f == IF CharAt(w, e) = "+" THEN e + 1 ELSE e
       IN  CharAt(w, f) = "="

\* An end offset one past the last character of the text
TokenEndExclusive(start, text) == start + Len(text)

\* The end offset of a token that starts at start
TokenEnd(start, text) == start + Len(text) - 1

\* classifyWord testing for a path before it tests for a glob
WordTypePathFirst(w, expectCommand) ==
    IF IsAssignment(w) THEN "assign"
    ELSE IF looksLikePath(w) THEN "path"
    ELSE IF containsGlob(w) THEN "globbing"
    ELSE IF expectCommand
    THEN IF w \in RESERVED_WORDS THEN "reserved-word"
         ELSE IF w \in PRECOMMANDS THEN "precommand"
         ELSE IF w \in BUILTINS THEN "builtin"
         ELSE "command"
    ELSE IF StartsWith(w, <<"-", "-">>) /\ Len(w) > 2 THEN "double-hyphen-option"
    ELSE IF StartsWith(w, <<"-">>) /\ Len(w) > 1 /\ ~StartsWith(w, <<"-", "-">>)
    THEN "single-hyphen-option"
    ELSE "default"

\* classifyWord taking every word to be in command position
WordTypeOfCommand(w, expectCommand) ==
    IF IsAssignment(w) THEN "assign"
    ELSE IF containsGlob(w) THEN "globbing"
    ELSE IF looksLikePath(w) THEN "path"
    ELSE IF TRUE
    THEN IF w \in RESERVED_WORDS THEN "reserved-word"
         ELSE IF w \in PRECOMMANDS THEN "precommand"
         ELSE IF w \in BUILTINS THEN "builtin"
         ELSE "command"
    ELSE IF StartsWith(w, <<"-", "-">>) /\ Len(w) > 2 THEN "double-hyphen-option"
    ELSE IF StartsWith(w, <<"-">>) /\ Len(w) > 1 /\ ~StartsWith(w, <<"-", "-">>)
    THEN "single-hyphen-option"
    ELSE "default"

\* The type classifyWord gives a word
WordType(w, expectCommand) ==
    IF IsAssignment(w) THEN "assign"
    ELSE IF containsGlob(w) THEN "globbing"
    ELSE IF looksLikePath(w) THEN "path"
    ELSE IF expectCommand
    THEN IF w \in RESERVED_WORDS THEN "reserved-word"
         ELSE IF w \in PRECOMMANDS THEN "precommand"
         ELSE IF w \in BUILTINS THEN "builtin"
         ELSE "command"
    ELSE IF StartsWith(w, <<"-", "-">>) /\ Len(w) > 2 THEN "double-hyphen-option"
    ELSE IF StartsWith(w, <<"-">>) /\ Len(w) > 1 /\ ~StartsWith(w, <<"-", "-">>)
    THEN "single-hyphen-option"
    ELSE "default"

classifyWord(w, expectCommand, start) ==
    [type |-> WordType(w, expectCommand), text |-> w, start |-> start,
     end |-> TokenEnd(start, w)]

-----------------------------------------------------------------------------
(* Terminal styles: src/src/terminal.ts *)

\* The escape character \x1b
ESC == "ESC"

\* The digits of parseInt and of number formatting, by value
DigitChars ==
    <<"0", "1", "2", "3", "4", "5", "6", "7", "8", "9", "a", "b", "c", "d", "e", "f", "g", "h",
      "i", "j", "k", "l", "m", "n", "o", "p", "q", "r", "s", "t", "u", "v", "w", "x", "y", "z">>

RECURSIVE DigitsValue(_, _, _, _)
\* The value of the longest run of digits of the radix from s[i] on, and
\* the index after it; a character that is no digit has the value 36
DigitsValue(s, i, radix, acc) ==
    LET hits == {k \in 1..36 : i <= Len(s) /\ DigitChars[k] = ToLowerChar(s[i])}
        value == IF hits = {} THEN 36 ELSE (CHOOSE k \in hits : TRUE) - 1
    IN  IF value < radix THEN DigitsValue(s, i + 1, radix, acc * radix + value)
        ELSE [n |-> acc, i |-> i]

\* The number of the digits of parseInt, or NaN (no value) without a digit
ParsedDigits(run, negative) ==
    IF run.i = 1 THEN Undefined ELSE Some(IF negative THEN 0 - run.n ELSE run.n)

\* parseInt after the sign: 0x is skipped for radix 16
ParseUnsigned(u, radix, negative) ==
    ParsedDigits(DigitsValue(IF radix = 16 /\ Len(u) >= 2 /\ u[1] = "0" /\ u[2] \in {"x", "X"}
                             THEN SliceFrom(u, 2) ELSE u, 1, radix, 0), negative)

\* parseInt after the leading white space: a sign may come first
ParseSigned(t, radix) ==
    IF Len(t) > 0 /\ t[1] \in {"+", "-"} THEN ParseUnsigned(Tail(t), radix, t[1] = "-")
    ELSE ParseUnsigned(t, radix, FALSE)

\* parseInt(s, radix): leading white space, a sign, 0x for radix 16 and the
\* longest run of digits; NaN (no value) when there is no digit
parseInt(s, radix) == ParseSigned(TrimStart(s), radix)

RECURSIVE NumberString(_)
\* String(n) of an integer
NumberString(n) ==
    IF n < 0 THEN <<"-">> \o NumberString(0 - n)
    ELSE IF n < 10 THEN <<DigitChars[n + 1]>>
    ELSE NumberString(n \div 10) \o <<DigitChars[(n % 10) + 1]>>

\* A render function (s: string) => string of this file puts a prefix
\* before its argument and a suffix after it
Render(f, s) == f.prefix \o s \o f.suffix

\* reset: RESET_COLOR_SEQUENCE + s
reset == [prefix |-> <<ESC, "[", "0", "m">>, suffix |-> <<>>]

NAMED_COLORS ==
    <<[name |-> <<"b", "l", "a", "c", "k">>, code |-> <<"0">>],
      [name |-> <<"r", "e", "d">>, code |-> <<"1">>],
      [name |-> <<"g", "r", "e", "e", "n">>, code |-> <<"2">>],
      [name |-> <<"y", "e", "l", "l", "o", "w">>, code |-> <<"3">>],
      [name |-> <<"b", "l", "u", "e">>, code |-> <<"4">>],
      [name |-> <<"m", "a", "g", "e", "n", "t", "a">>, code |-> <<"5">>],
      [name |-> <<"c", "y", "a", "n">>, code |-> <<"6">>],
      [name |-> <<"w", "h", "i", "t", "e">>, code |-> <<"7">>],
      [name |-> <<"d", "e", "f", "a", "u", "l", "t">>, code |-> <<"9">>],
      [name |-> <<"b", "r", "i", "g", "h", "t", "-", "b", "l", "a", "c", "k">>, code |-> <<"0", ";", "1">>],
      [name |-> <<"b", "r", "i", "g", "h", "t", "-", "r", "e", "d">>, code |-> <<"1", ";", "1">>],
      [name |-> <<"b", "r", "i", "g", "h", "t", "-", "g", "r", "e", "e", "n">>, code |-> <<"2", ";", "1">>],
      [name |-> <<"b", "r", "i", "g", "h", "t", "-", "y", "e", "l", "l", "o", "w">>, code |-> <<"3", ";", "1">>],
      [name |-> <<"b", "r", "i", "g", "h", "t", "-", "b", "l", "u", "e">>, code |-> <<"4", ";", "1">>],
      [name |-> <<"b", "r", "i", "g", "h", "t", "-", "m", "a", "g", "e", "n", "t", "a">>, code |-> <<"5", ";", "1">>],
      [name |-> <<"b", "r", "i", "g", "h", "t", "-", "c", "y", "a", "n">>, code |-> <<"6", ";", "1">>],
      [name |-> <<"b", "r", "i", "g", "h", "t", "-", "w", "h", "i", "t", "e">>, code |-> <<"7", ";", "1">>]>>

\* { r, g, b } unless one of them is NaN
CssHexOf(r, g, b) ==
    IF ~IsDefined(r) \/ ~IsDefined(g) \/ ~IsDefined(b) THEN Undefined
    ELSE Some([r |-> r[1], g |-> g[1], b |-> b[1]])

\* parseCssHex: the three components of #rrggbb, or no value
parseCssHex(hex) ==
    IF Len(hex) # 7 \/ ~StartsWith(hex, <<"#">>) THEN Undefined
    ELSE CssHexOf(parseInt(Slice(hex, 1, 3), 16), parseInt(Slice(hex, 3, 5), 16),
                  parseInt(Slice(hex, 5, 7), 16))

\* fgRGB and bgRGB: the sequence of a colour given by its components
RGBSequence(prefix, r, g, b) ==
    <<ESC, "[">> \o prefix \o <<";", "2", ";">> \o NumberString(r) \o <<";">> \o
    NumberString(g) \o <<";">> \o NumberString(b) \o <<"m">>

\* parseColor for a named color: the code is base + number, bright with ;1
NamedSequence(parts, isBg) ==
    <<ESC, "[">> \o NumberString((IF isBg THEN 40 ELSE 30) + parseInt(parts[1], 10)[1]) \o
    (IF Len(parts) > 1 THEN <<";", "1", "m">> ELSE <<"m">>)

\* parseColor after the three lookups
ColorSequence(prefix, rgb, named, colorNum, isBg) ==
    IF IsDefined(rgb) THEN RGBSequence(prefix, rgb[1].r, rgb[1].g, rgb[1].b)
    ELSE IF named # {}
    THEN NamedSequence(SplitOn(NAMED_COLORS[CHOOSE k \in named : TRUE].code, ";"), isBg)
    ELSE IF IsDefined(colorNum) /\ colorNum[1] >= 0 /\ colorNum[1] <= 255
    THEN <<ESC, "[">> \o prefix \o <<";", "5", ";">> \o NumberString(colorNum[1]) \o <<"m">>
    ELSE <<>>

\* parseColor: the escape sequence of a colour, or the empty string
parseColor(color, isBg) ==
    ColorSequence(IF isBg THEN <<"4", "8">> ELSE <<"3", "8">>, parseCssHex(color),
                  {k \in DOMAIN NAMED_COLORS : NAMED_COLORS[k].name = ToLowerCase(color)},
                  parseInt(color, 10), isBg)

\* The style modifiers of parseStyleString with their start and end codes
STYLE_MODIFIERS ==
    <<[name |-> <<"b", "o", "l", "d">>, on |-> <<"1">>, off |-> <<"2", "2">>],
      [name |-> <<"d", "i", "m">>, on |-> <<"2">>, off |-> <<"2", "2">>],
      [name |-> <<"i", "t", "a", "l", "i", "c">>, on |-> <<"3">>, off |-> <<"2", "3">>],
      [name |-> <<"u", "n", "d", "e", "r", "l", "i", "n", "e">>, on |-> <<"4">>, off |-> <<"2", "4">>],
      [name |-> <<"b", "l", "i", "n", "k">>, on |-> <<"5">>, off |-> <<"2", "5">>],
      [name |-> <<"r", "e", "v", "e", "r", "s", "e">>, on |-> <<"7">>, off |-> <<"2", "7">>],
      [name |-> <<"s", "t", "a", "n", "d", "o", "u", "t">>, on |-> <<"7">>, off |-> <<"2", "7">>],
      [name |-> <<"h", "i", "d", "d", "e", "n">>, on |-> <<"8">>, off |-> <<"2", "8">>],
      [name |-> <<"s", "t", "r", "i", "k", "e", "t", "h", "r", "o", "u", "g", "h">>, on |-> <<"9">>, off |-> <<"2", "9">>]>>

RECURSIVE StyleParts(_, _, _)
\* The loop of parseStyleString over the parts: the prefixes and suffixes
\* pushed so far, until a part none returns reset or parseColor throws:
\* NAMED_COLORS[color.toLowerCase()] finds the properties constructor and
\* __proto__ that every object has, and they have no split method
StyleParts(parts, prefixes, suffixes) ==
    IF Len(parts) = 0
    THEN [outcome |-> "end", prefixes |-> prefixes, suffixes |-> suffixes]
    ELSE LET part == parts[1]
             isFg == StartsWith(part, <<"f", "g", "=">>)
             isBg == StartsWith(part, <<"b", "g", "=">>)
             mods == {k \in DOMAIN STYLE_MODIFIERS : STYLE_MODIFIERS[k].name = ToLowerCase(part)}
             mod == STYLE_MODIFIERS[CHOOSE k \in mods : TRUE]
         IN  IF isFg \/ isBg
             THEN IF ToLowerCase(SliceFrom(part, 3)) \in
                        {<<"c", "o", "n", "s", "t", "r", "u", "c", "t", "o", "r">>,
                         <<"_", "_", "p", "r", "o", "t", "o", "_", "_">>}
                  THEN [outcome |-> "throws", prefixes |-> prefixes, suffixes |-> suffixes]
                  ELSE StyleParts(Tail(parts), prefixes \o parseColor(SliceFrom(part, 3), isBg),
                                  suffixes)
             ELSE IF ToLowerCase(part) = <<"n", "o", "n", "e">>
             THEN [outcome |-> "none", prefixes |-> prefixes, suffixes |-> suffixes]
             ELSE IF mods # {}
             THEN StyleParts(Tail(parts), prefixes \o <<ESC, "[">> \o mod.on \o <<"m">>,
                             suffixes \o <<ESC, "[">> \o mod.off \o <<"m">>)
             ELSE StyleParts(Tail(parts), prefixes, suffixes)

\* parseStyleString: the render function of a style, or no value when the
\* call throws
parseStyleString(style) ==
    LET split == SplitOn(style, ",")
        r == StyleParts([i \in 1..Len(split) |-> Trim(split[i])], <<>>, <<>>)
    IN  IF r.outcome = "throws" THEN Undefined
        ELSE IF r.outcome = "none" THEN Some(reset)
        ELSE IF Len(r.prefixes) = 0 THEN Some([prefix |-> <<>>, suffix |-> <<>>])
        ELSE Some([prefix |-> r.prefixes, suffix |-> r.suffixes])

\* fgColorFunc after parseCssHex
FgColorOf(rgb) ==
    IF ~IsDefined(rgb) THEN reset
    ELSE [prefix |-> RGBSequence(<<"3", "8">>, rgb[1].r, rgb[1].g, rgb[1].b), suffix |-> <<>>]

\* fgColorFunc(hex)
fgColorFunc(hex) == FgColorOf(parseCssHex(hex))

\* underline(s)
underline == [prefix |-> <<ESC, "[", "4", "m">>, suffix |-> <<ESC, "[", "2", "4", "m">>]

-----------------------------------------------------------------------------
(* Configuration and highlighter: config.ts and src/src/syntax-highlight.ts *)

\* Config as the module defines it
DefaultConfig ==
    [menuRow |-> 2, lineEditOverMenu |-> FALSE, menuWidth |-> 80, menuHeight |-> 40,
     maxCmdHistoryLines |-> 1000, maxDirHistoryLines |-> 1000]

\* The Monokai color palette
Monokai ==
    [COLOR_GREEN |-> <<"#", "a", "6", "e", "2", "2", "e">>,
     COLOR_FUCHSIA |-> <<"#", "f", "9", "2", "6", "7", "2">>,
     COLOR_CYAN |-> <<"#", "6", "6", "d", "9", "e", "f">>,
     COLOR_ORANGE |-> <<"#", "f", "d", "9", "7", "1", "f">>,
     COLOR_PURPLE |-> <<"#", "a", "e", "8", "1", "f", "f">>,
     COLOR_YELLOW |-> <<"#", "e", "6", "d", "b", "7", "4">>,
     COLOR_GREY |-> <<"#", "7", "5", "7", "1", "5", "e">>,
     COLOR_WHITE |-> <<"#", "f", "f", "f", "f", "f", "f">>]

\* The token types that have a style
ZshTokenType ==
    {"unknown-token", "reserved-word", "builtin", "command", "precommand", "commandseparator",
     "path", "globbing", "history-expansion", "single-hyphen-option", "double-hyphen-option",
     "single-quoted-argument", "single-quoted-argument-unclosed", "double-quoted-argument",
     "double-quoted-argument-unclosed", "dollar-quoted-argument",
     "dollar-quoted-argument-unclosed", "back-quoted-argument",
     "back-quoted-argument-unclosed", "command-substitution", "process-substitution",
     "arithmetic-expansion", "assign", "redirection", "comment", "variable", "default"}

\* The default style string of each token type
DEFAULT_SYNTAX_HIGHLIGHT ==
    [type \in ZshTokenType |->
        <<"f", "g", "=">> \o
        (CASE type \in {"unknown-token", "reserved-word", "single-quoted-argument-unclosed",
                        "double-quoted-argument-unclosed", "dollar-quoted-argument-unclosed",
                        "back-quoted-argument-unclosed"} -> Monokai.COLOR_FUCHSIA
           [] type \in {"builtin", "command", "precommand"} -> Monokai.COLOR_GREEN
           [] type \in {"commandseparator", "redirection"} -> Monokai.COLOR_WHITE
           [] type \in {"path", "assign", "variable"} -> Monokai.COLOR_YELLOW
           [] type \in {"globbing", "single-quoted-argument", "double-quoted-argument",
                        "dollar-quoted-argument"} -> Monokai.COLOR_ORANGE
           [] type \in {"history-expansion", "single-hyphen-option", "double-hyphen-option",
                        "arithmetic-expansion"} -> Monokai.COLOR_PURPLE
           [] type = "comment" -> Monokai.COLOR_GREY
           [] OTHER -> Monokai.COLOR_CYAN) \o
        (IF type = "builtin" THEN <<",", "u", "n", "d", "e", "r", "l", "i", "n", "e">> ELSE <<>>)]

\* composeDecorators(f, g): arg => g(f(arg))
composeDecorators(f, g) == [prefix |-> g.prefix \o f.prefix, suffix |-> f.suffix \o g.suffix]

\* The color function of each token type
tokenColors ==
    [type \in ZshTokenType \ {"variable"} |->
    CASE type \in {"unknown-token", "reserved-word", "single-quoted-argument-unclosed",
                   "double-quoted-argument-unclosed", "dollar-quoted-argument-unclosed",
                   "back-quoted-argument-unclosed"} -> fgColorFunc(Monokai.COLOR_FUCHSIA)
      [] type = "builtin" -> composeDecorators(underline, fgColorFunc(Monokai.COLOR_GREEN))
      [] type \in {"command", "precommand"} -> fgColorFunc(Monokai.COLOR_GREEN)
      [] type \in {"commandseparator", "redirection"} -> fgColorFunc(Monokai.COLOR_WHITE)
      [] type \in {"path", "back-quoted-argument", "command-substitution",
                   "process-substitution", "default"} -> fgColorFunc(Monokai.COLOR_CYAN)
      [] type \in {"globbing", "single-quoted-argument", "double-quoted-argument",
                   "dollar-quoted-argument"} -> fgColorFunc(Monokai.COLOR_ORANGE)
      [] type \in {"history-expansion", "single-hyphen-option", "double-hyphen-option",
                   "arithmetic-expansion"} -> fgColorFunc(Monokai.COLOR_PURPLE)
      [] type = "assign" -> fgColorFunc(Monokai.COLOR_YELLOW)
      [] type = "comment" -> fgColorFunc(Monokai.COLOR_GREY)]

\* Apply color to a single token
applyTokenColor(text, token) == Render(tokenColors[token.type], text)

RECURSIVE ColorizeLoop(_, _, _, _, _)
\* for (const token of tokens): the uncolored text before the token, then
\* the colored token
ColorizeLoop(line, toks, k, at, result) ==
    IF k > Len(toks) THEN [pos |-> at, result |-> result]
    ELSE LET token == toks[k]
             before == IF at < token.start THEN Slice(line, at, token.start) ELSE <<>>
             chunk == Slice(line, token.start, token.end + 1)
         IN  ColorizeLoop(line, toks, k + 1, token.end + 1,
                          result \o before \o applyTokenColor(chunk, token))

\* A colorize that stops at the end of the last token
colorizeToLastToken(line, toks) ==
    IF Len(toks) = 0 THEN line
    ELSE ColorizeLoop(line, toks, 1, 0, <<>>).result

\* Colorize a line using the provided tokens
colorize(line, toks) ==
    IF Len(toks) = 0 THEN line
    ELSE LET r == ColorizeLoop(line, toks, 1, 0, <<>>)
         IN  r.result \o (IF r.pos < Len(line) THEN SliceFrom(line, r.pos) ELSE <<>>)

\* if (configMap.KEY): the variable is set and not empty
Truthy(o) == IsDefined(o) /\ Len(o[1]) > 0

\* applyConfig of src/src/config.ts: the Config it leaves
applyConfig(cfg, map) ==
    LET row == parseInt(map.ZEEK_MENU_ROW[1], 10)
        c1 == IF ~Truthy(map.ZEEK_MENU_ROW) THEN cfg
              ELSE LET set == IF IsDefined(row) THEN [cfg EXCEPT !.menuRow = row[1]] ELSE cfg
                   IN  IF set.menuRow = 1 THEN [set EXCEPT !.menuRow = 2] ELSE set
        sizes == SplitOn(map.ZEEK_MENU_SIZE[1], "x")
        width == parseInt(sizes[1], 10)
        height == parseInt(sizes[2], 10)
        c2 == IF Truthy(map.ZEEK_MENU_SIZE) /\ Len(sizes) = 2 /\ IsDefined(width) /\ IsDefined(height)
              THEN [c1 EXCEPT !.menuWidth = width[1], !.menuHeight = height[1]]
              ELSE c1
        val == ToLowerCase(map.ZEEK_LINE_EDIT_OVER_MENU[1])
        c3 == IF ~Truthy(map.ZEEK_LINE_EDIT_OVER_MENU) THEN c2
              ELSE [c2 EXCEPT !.lineEditOverMenu =
                        val \in {<<"t", "r", "u", "e">>, <<"1">>, <<"y", "e", "s">>}]
        maxCmdLines == parseInt(map.ZEEK_MAX_CMD_HISTORY_LINES[1], 10)
        c4 == IF Truthy(map.ZEEK_MAX_CMD_HISTORY_LINES) /\ IsDefined(maxCmdLines)
              THEN [c3 EXCEPT !.maxCmdHistoryLines = maxCmdLines[1]] ELSE c3
        maxDirLines == parseInt(map.ZEEK_MAX_DIR_HISTORY_LINES[1], 10)
    IN  IF Truthy(map.ZEEK_MAX_DIR_HISTORY_LINES) /\ IsDefined(maxDirLines)
        THEN [c4 EXCEPT !.maxDirHistoryLines = maxDirLines[1]] ELSE c4


\* An applyHighlightStyles that leaves the defaults in place
applyHighlightStylesToNone(syntaxHighlight, json) == syntaxHighlight

\* applyHighlightStyles of the newest config.ts: the SyntaxHighlight it leaves.
\* json is what JSON.parse makes of the variable: not valid, or the entries
\* of the object with the string each value is, if it is one
applyHighlightStyles(syntaxHighlight, json) ==
    IF ~json.valid THEN syntaxHighlight
    ELSE LET applied == {k \in DOMAIN json.entries :
                            IsDefined(json.entries[k].style) /\ Len(json.entries[k].style[1]) > 0}
             entryOf(type) == CHOOSE k \in applied : json.entries[k].tokenType = type
         IN  [type \in DOMAIN syntaxHighlight \cup {json.entries[k].tokenType : k \in applied} |->
                IF \E k \in applied : json.entries[k].tokenType = type
                THEN json.entries[entryOf(type)].style[1]
                ELSE syntaxHighlight[type]]

\* The render function of each category, built from the mapping when the
\* first line is highlighted
resolveTokenStyles(syntaxHighlight) ==
    [type \in DOMAIN syntaxHighlight |-> parseStyleString(syntaxHighlight[type])]

\* colorize with the resolved render functions
colorizeResolved(styles, line, toks) ==
    LET gap(k) == Slice(line, IF k = 1 THEN 0 ELSE toks[k - 1].end + 1, toks[k].start)
        chunk(k) == Slice(line, toks[k].start, toks[k].end + 1)
    IN  IF Len(toks) = 0 THEN line
        ELSE Flatten([k \in 1..Len(toks) |-> gap(k) \o Render(styles[toks[k].type][1], chunk(k))])
             \o SliceFrom(line, toks[Len(toks)].end + 1)

-----------------------------------------------------------------------------
(* Directory history: history/dir-history.ts *)

\* readDirHistoryFile: the lines of the file that are not blank, none when the
\* file cannot be read
readDirHistoryFile(file) ==
    IF IsDefined(file)
    THEN SelectSeq(SplitOn(file[1], "\n"), LAMBDA d : Len(d) > 0 /\ Trim(d) # <<>>)
    ELSE <<>>

\* writeDirHistoryFile: the text written to the file
writeDirHistoryFile(dirs) == JoinWith(dirs, <<"\n">>)

\* The history when its first entry has been shifted out because it was full
ShiftedWhenFull(dirHistory, maxLines) ==
    IF Len(dirHistory) >= maxLines /\ Len(dirHistory) > 0 THEN Tail(dirHistory) ELSE dirHistory

\* addCwdToHistory: the text of the file after the call
addCwdToHistory(file, cwd, maxLines) ==
    writeDirHistoryFile(
        Append(ShiftedWhenFull(SelectSeq(readDirHistoryFile(file), LAMBDA dir : dir # cwd),
                               maxLines),
               cwd))

-----------------------------------------------------------------------------
(* Geometry of the menu: MenuPopup.computeDimensions *)

\* Math.min and Math.max of two numbers
MathMin(a, b) == IF a <= b THEN a ELSE b
MathMax(a, b) == IF a >= b THEN a ELSE b

RECURSIVE MaxItemLength(_)
\* this.items.reduce((max, item) => Math.max(max, item.length), 0)
MaxItemLength(its) ==
    IF Len(its) = 0 THEN 0 ELSE MathMax(Len(its[1]), MaxItemLength(Tail(its)))

\* The width of the menu
MenuWidth(cfg, columns, maxWidth) ==
    IF cfg.menuWidth > 0
    THEN MathMin(MathMin(columns - 2, maxWidth + 1), cfg.menuWidth)
    ELSE MathMin(columns + cfg.menuWidth, maxWidth + 1)

\* The height of the menu
MenuHeight(cfg, rows, count) ==
    IF cfg.menuHeight > 0
    THEN MathMin(MathMin(rows - 4, count), cfg.menuHeight)
    ELSE MathMin(rows + cfg.menuHeight, count)

\* this.menuRow
MenuRow(cfg, rows, height) ==
    IF cfg.menuRow > 0 THEN cfg.menuRow ELSE rows + cfg.menuRow - height

\* this.lineEditorRow
LineEditorRow(cfg, menuRow, height) ==
    IF cfg.lineEditOverMenu THEN menuRow - 2 ELSE menuRow + height + 1

\* The rows that computeDimensions sets, with the dimensions it returns
DimensionsAt(cfg, width, height, menuRow) ==
    [width |-> width, height |-> height, menuRow |-> menuRow,
     lineEditorRow |-> LineEditorRow(cfg, menuRow, height)]

\* computeDimensions in a terminal of the given columns and rows
computeDimensions(cfg, columns, rows, its) ==
    DimensionsAt(cfg,
                 MenuWidth(cfg, columns, MaxItemLength(its)),
                 MenuHeight(cfg, rows, Len(its)),
                 MenuRow(cfg, rows, MenuHeight(cfg, rows, Len(its))))

-----------------------------------------------------------------------------
(* The word under the cursor: getWordUnderCursor of file-list.ts *)

RECURSIVE WordStartScan(_, _)
\* The first loop, from offset i down: after the last space or tab of lbuffer
WordStartScan(lbuffer, i) ==
    IF i < 0 THEN Len(lbuffer)
    ELSE IF CharAt(lbuffer, i) \in {" ", "\t"} THEN i + 1
    ELSE IF i = 0 THEN 0
    ELSE WordStartScan(lbuffer, i - 1)

RECURSIVE WordEndScan(_, _)
\* The second loop, from offset i up: the first space or tab of rbuffer
WordEndScan(rbuffer, i) ==
    IF i >= Len(rbuffer) THEN Len(rbuffer)
    ELSE IF CharAt(rbuffer, i) \in {" ", "\t"} THEN i
    ELSE WordEndScan(rbuffer, i + 1)

\* The result for the offsets that the two loops have found
WordAt(lbuffer, rbuffer, wordStart, wordEnd) ==
    [word |-> SliceFrom(lbuffer, wordStart) \o Slice(rbuffer, 0, wordEnd),
     wordStart |-> wordStart,
     suffix |-> SliceFrom(rbuffer, wordEnd)]

\* getWordUnderCursor ending the word at the first character of rbuffer
getWordUnderCursorLeftOnly(lbuffer, rbuffer) ==
    WordAt(lbuffer, rbuffer, WordStartScan(lbuffer, Len(lbuffer) - 1), 0)

\* getWordUnderCursor(lbuffer, rbuffer)
getWordUnderCursor(lbuffer, rbuffer) ==
    WordAt(lbuffer, rbuffer,
           WordStartScan(lbuffer, Len(lbuffer) - 1), WordEndScan(rbuffer, 0))

-----------------------------------------------------------------------------
(* Inputs of the popups *)

\* Command histories the history popup is opened on
HistoryLists == {<<>>, <<<<"a", "b">>, <<"B", " ", "a">>, <<"c", "<NL>", "a">>>>}

\* The command line at the cursor when the history popup is opened
Buffers ==
    {[l |-> <<>>, r |-> <<>>], [l |-> <<"a">>, r |-> <<>>], [l |-> <<>>, r |-> <<"b">>],
     [l |-> <<"a">>, r |-> <<"b">>]}

\* The word under the cursor when the file search is opened
SearchWords ==
    {[prefix |-> <<>>, file |-> <<>>, suffix |-> <<>>],
     [prefix |-> <<"l", " ">>, file |-> <<"b">>, suffix |-> <<" ", "x">>]}

\* Keys of the keyboard: typed characters, named keys, alt and control keys
Keys ==
    {KeypressKey(c, c) : c \in {"a", "b", " "}}
    \cup {KeypressKey("", n) : n \in EDITOR_KEYS \cup {"up", "down", "pageup"}}
    \cup {MetaKey("b"), MetaKey("f")}
    \cup {KeypressKey(BACKSPACE1, "backspace"), KeypressKey(BACKSPACE2, "backspace"),
          KeypressKey(CTRL_A, "a"), KeypressKey(CTRL_E, "e")}
    \cup {KeypressKey("\t", "tab"), KeypressKey("\r", "return"), KeypressKey("^[", "escape")}

-----------------------------------------------------------------------------
(* State *)

VARIABLES
    pc,             \* "idle", "open", "failed" (opening raised), "exited" (process.exit)
                    \* or "crashed" (uncaught exception)
    kind,           \* which popup was opened: "history", "fileSearch" or "custom"
    items,          \* MenuPopup.items
    filteredItems,  \* MenuPopup.filteredItems
    selection,      \* menu.selection
    headerText,     \* MenuPopup.headerText, optional
    lineEditor,     \* MenuPopup.lineEditor: [left, right]
    screen,         \* "normal" or "alternate"
    cursorVisible,  \* terminal cursor shown
    handled,        \* calls of popup.handleSelection, in order
    reported,       \* the terminal at each console.error of openMenuPopup, in order
    emitted,        \* lines written to file descriptor 3
    currentAbsPath, \* openFileSearchPopup's tracked directory
    word,           \* openFileSearchPopup's prefix and suffix
    navCall         \* the call of onNavigate made by the last key event, optional

popupVars == <<pc, kind, items, filteredItems, selection, headerText, lineEditor,
               screen, cursorVisible, handled, reported, emitted, currentAbsPath, word,
               navCall>>

VARIABLES
    input,          \* tokenize's argument
    pos,            \* tokenize's scan position
    tokens,         \* the tokens pushed so far
    expectCommand,  \* whether the next word is in command position
    tokPc           \* "idle", "scan" (in the loop) or "done" (returned)

tokVars == <<input, pos, tokens, expectCommand, tokPc>>

VARIABLES
    filterCall,     \* the arguments of a call of filterItems: [kind, items, filter]
    filterResult    \* what the call returned, optional

filterVars == <<filterCall, filterResult>>

VARIABLES
    highlighted,    \* what highlightCommand returned, optional
    SyntaxHighlight, \* config.SyntaxHighlight: the style string of each token type
    tokenStyles     \* the render function of each token type once resolved, optional

hlVars == <<highlighted, SyntaxHighlight, tokenStyles>>

VARIABLES
    editor          \* a LineEditor on its own: [left, right]

edVars == <<editor>>

VARIABLES
    styleCall,      \* the argument of a call of parseStyleString
    styleResult     \* what the function it returned makes of a text, optional

styleVars == <<styleCall, styleResult>>

VARIABLES
    Config,         \* config.Config
    configMap       \* the ZEEK_ environment variables initConfig has yet to apply, optional

cfgVars == <<Config, configMap>>

VARIABLES
    dirHistoryFile, \* the text of ~/.dir_history, optional: there is no file at first
    storedDirs      \* the working directory of each call of addCwdToHistory, in order

dhVars == <<dirHistoryFile, storedDirs>>

VARIABLES
    dimCall,        \* process.stdout and this.items at the call of computeDimensions, optional
    dimensions      \* what computeDimensions has returned and set, optional

dimVars == <<dimCall, dimensions>>

VARIABLES
    wordCall,       \* the lbuffer and rbuffer of the call of getWordUnderCursor, optional
    wordResult      \* what getWordUnderCursor has returned, optional

wordVars == <<wordCall, wordResult>>

\* The state of the commands that open no popup, of the menu's geometry and of
\* the word under the cursor
toolVars == <<dhVars, dimVars, wordVars>>

\* The state of the pure functions and of the components that are modelled
\* on their own
callVars == <<filterVars, hlVars, edVars, styleVars, cfgVars, toolVars>>

\* The highlighter, the line editor, parseStyleString and the configuration
\* before they are used
CallsIdle ==
    /\ highlighted = Undefined
    /\ SyntaxHighlight = DEFAULT_SYNTAX_HIGHLIGHT
    /\ tokenStyles = Undefined
    /\ editor = NewLineEditor(<<>>)
    /\ styleCall = Undefined
    /\ styleResult = Undefined
    /\ dirHistoryFile = Undefined
    /\ storedDirs = <<>>
    /\ dimCall = Undefined
    /\ dimensions = Undefined
    /\ wordCall = Undefined
    /\ wordResult = Undefined

\* The same, with the configuration that config.ts declares
ComponentsIdle ==
    /\ CallsIdle
    /\ Config = DefaultConfig
    /\ configMap = Undefined

-----------------------------------------------------------------------------
(* Result handlers *)

\* Terminal operations on [screen, cursor]
normalScreen(t) == [t EXCEPT !.screen = "normal"]
alternateScreen(t) == [t EXCEPT !.screen = "alternate"]
showCursor(t) == [t EXCEPT !.cursor = TRUE]
hideCursor(t) == [t EXCEPT !.cursor = FALSE]

\* menuDone calling handleSelection before it restores the terminal
TermAtHandlerUnrestored(t) == t

\* The terminal as menuDone has left it when it calls handleSelection
TermAtHandler(t) == showCursor(normalScreen(t))

\* menuDone handing the no-matches entry to handleSelection like any line
MenuDoneLineWithSentinel(filtered, item) ==
    LET line == IF item >= 0 THEN ItemAt(filtered, item) ELSE Undefined
    IN  IF TruthyLine(line) THEN Some(RestoreNewlines(line[1])) ELSE line

\* menuDone: the line handed to handleSelection for menu item number item
MenuDoneLine(filtered, item) ==
    LET line == IF item >= 0 THEN ItemAt(filtered, item) ELSE Undefined
    IN  IF line = Some(NO_MATCHES) THEN Undefined
        ELSE IF TruthyLine(line) THEN Some(RestoreNewlines(line[1]))
        ELSE line

\* openFileSearchPopup's handleSelection returns early on a directory line
FileSearchKeepsOpen(line, action) ==
    TruthyLine(line) /\ action = "navigate" /\ StartsWith(line[1], <<"d">>)

\* openFileSearchPopup's handleSelection: the line handed to exitHandler
FileSearchExitLine(line, path, w) ==
    IF TruthyLine(line)
    THEN LET selectedFile == getFileNameFromLine(line[1])
             rel == PathRelative(Cwd, path)
             relativePath == IF StartsWith(rel, <<".", ".">>) THEN PathString(path) ELSE rel
             fpath == IF relativePath = <<"/">> THEN <<"/">>
                      ELSE IF Len(relativePath) > 0 THEN relativePath \o <<"/">>
                      ELSE <<>>
         IN  Some(exitHandlerLine(w.prefix, fpath \o selectedFile, w.suffix))
    ELSE line

\* emitLineAndExit: what is written to file descriptor 3
EmitLine(out, line) == IF TruthyLine(line) THEN Append(out, line[1]) ELSE out

\* menuDone(item, action): restore the terminal, then call handleSelection
MenuDone(item, action) ==
    LET line == MenuDoneLine(filteredItems, item)
        t == TermAtHandler(hideCursor([screen |-> screen, cursor |-> cursorVisible]))
    IN  /\ screen' = t.screen
        /\ cursorVisible' = t.cursor
        /\ handled' = Append(handled, [line |-> line, action |-> action,
                                       screen |-> t.screen, cursor |-> t.cursor])
        /\ IF kind = "fileSearch" /\ FileSearchKeepsOpen(line, action)
           THEN /\ pc' = pc
                /\ emitted' = emitted
           ELSE /\ pc' = "exited"
                /\ emitted' = EmitLine(emitted,
                                       IF kind = "fileSearch"
                                       THEN FileSearchExitLine(line, currentAbsPath, word)
                                       ELSE line)
        /\ UNCHANGED <<kind, items, filteredItems, selection, headerText, lineEditor,
                       reported, currentAbsPath, word>>

-----------------------------------------------------------------------------
(* Opening a popup *)

\* openMenuPopup reporting the failure with the terminal as it stands
TermAtReportUnrestored(t) == t

\* The terminal as the catch block of openMenuPopup has left it when it
\* calls console.error
TermAtReport(t) == showCursor(normalScreen(t))

\* new MenuPopup(its) and openMenuPopup(lbuffer, rbuffer): alternate screen,
\* createMenu, showHeader, then listenKeyboard, which filters when a buffer is
\* not empty; an exception raised on the way is caught and reported.  It can
\* be raised in createMenu, in showHeader, in listenKeyboard before the line
\* editor exists (setRawMode), or in its updateMenu
OpenMenuPopup(k, its, lbuffer, rbuffer) ==
    \E outcome \in {"opened", "createMenu", "showHeader", "setRawMode", "updateMenu"} :
        LET ed == NewLineEditor(lbuffer)
            seeded == Len(lbuffer) > 0 \/ Len(rbuffer) > 0
            filtered == IF seeded THEN UpdatedItems(k, its, getLine(ed)) ELSE its
            entered == alternateScreen([screen |-> screen, cursor |-> cursorVisible])
            caught == TermAtReport(entered)
        IN  /\ outcome = "updateMenu" => seeded
            /\ kind' = k
            /\ items' = its
            /\ IF outcome = "opened"
               THEN /\ filteredItems' = filtered
                    /\ selection' = IF seeded THEN UpdatedSelection(k, filtered)
                                    ELSE InitialSelection(k, its)
                    /\ lineEditor' = ed
                    /\ screen' = entered.screen
                    /\ pc' = "open"
                    /\ UNCHANGED <<cursorVisible, reported>>
               ELSE /\ filteredItems' = IF outcome = "updateMenu" THEN filtered ELSE its
                    /\ selection' = IF outcome = "createMenu" THEN selection
                                    ELSE InitialSelection(k, its)
                    /\ lineEditor' = IF outcome = "updateMenu" THEN ed ELSE lineEditor
                    /\ screen' = caught.screen
                    /\ cursorVisible' = caught.cursor
                    /\ reported' = Append(reported, [screen |-> caught.screen,
                                                     cursor |-> caught.cursor])
                    /\ pc' = "failed"
            /\ UNCHANGED <<handled, emitted, navCall>>

\* index.ts openHistoryPopup: the handler is emitLineAndExit
OpenHistoryPopup ==
    /\ pc = "idle"
    /\ UNCHANGED <<tokVars, callVars>>
    /\ \E its \in HistoryLists, b \in Buffers : OpenMenuPopup("history", its, b.l, b.r)
    /\ UNCHANGED <<headerText, currentAbsPath, word>>

\* A popup opened by a caller that registers a navigation callback and
\* emitLineAndExit as the handler
OpenCustomPopup ==
    /\ pc = "idle"
    /\ UNCHANGED <<tokVars, callVars>>
    /\ \E its \in HistoryLists, b \in Buffers : OpenMenuPopup("custom", its, b.l, b.r)
    /\ UNCHANGED <<headerText, currentAbsPath, word>>

\* file-search-popup.ts openFileSearchPopup; ok says whether the directory can be listed
OpenFileSearchPopup ==
    /\ pc = "idle"
    /\ UNCHANGED <<tokVars, callVars>>
    /\ \E w \in SearchWords, start \in Dirs, ok \in BOOLEAN :
        IF ~ok
        THEN /\ pc' = "crashed"
             /\ UNCHANGED <<kind, items, filteredItems, selection, headerText, lineEditor,
                            screen, cursorVisible, handled, reported, emitted, currentAbsPath, word,
                            navCall>>
        ELSE LET fileList == getFileList(start)
                 match == singleMatch(fileList, w.file)
             IN  IF TruthyLine(match)
                 THEN /\ pc' = "exited"
                      /\ emitted' = EmitLine(emitted,
                                             Some(exitHandlerLine(w.prefix, match[1], w.suffix)))
                      /\ UNCHANGED <<kind, items, filteredItems, selection, headerText,
                                     lineEditor, screen, cursorVisible, handled, reported,
                                     currentAbsPath, word, navCall>>
                 ELSE /\ OpenMenuPopup("fileSearch", fileList, w.file, <<>>)
                      /\ headerText' = Some(PathString(start))
                      /\ currentAbsPath' = start
                      /\ word' = [prefix |-> w.prefix, suffix |-> w.suffix]

-----------------------------------------------------------------------------
(* Navigation callback of the file search *)

\* popup.onNavigate(line, action): ok1 and ok2 say whether the first and the
\* fallback directory listing succeed.  The result is a list ("items"),
\* undefined, or an exception ("throws"); path is the tracked directory after.
\* An onNavigate that tracks the parent directory before it has listed it
onNavigateTrackingFirst(line, action, path, ok1, ok2) ==
    IF action = "navigate" /\ TruthyLine(line)
    THEN IF StartsWith(line[1], <<"d">>)
         THEN LET newPath == PathJoin(path, getFileNameFromLine(line[1]))
              IN  IF ok1
                  THEN [result |-> "items", list |-> getFileList(newPath), path |-> newPath]
                  ELSE [result |-> "undefined", list |-> <<>>, path |-> path]
         ELSE [result |-> "undefined", list |-> <<>>, path |-> path]
    ELSE IF action = "navigate-up"
    THEN IF path = RootPath
         THEN IF ok1
              THEN [result |-> "items", list |-> getFileList(path), path |-> path]
              ELSE [result |-> "throws", list |-> <<>>, path |-> path]
         ELSE LET parentPath == PathDirname(path)
              IN  IF ok1
                  THEN [result |-> "items", list |-> getFileList(parentPath), path |-> parentPath]
                  ELSE IF ok2
                  THEN [result |-> "items", list |-> getFileList(path), path |-> parentPath]
                  ELSE [result |-> "throws", list |-> <<>>, path |-> path]
    ELSE [result |-> "undefined", list |-> <<>>, path |-> path]

onNavigate(line, action, path, ok1, ok2) ==
    IF action = "navigate" /\ TruthyLine(line)
    THEN IF StartsWith(line[1], <<"d">>)
         THEN LET newPath == PathJoin(path, getFileNameFromLine(line[1]))
              IN  IF ok1
                  THEN [result |-> "items", list |-> getFileList(newPath), path |-> newPath]
                  ELSE [result |-> "undefined", list |-> <<>>, path |-> path]
         ELSE [result |-> "undefined", list |-> <<>>, path |-> path]
    ELSE IF action = "navigate-up"
    THEN IF path = RootPath
         THEN IF ok1
              THEN [result |-> "items", list |-> getFileList(path), path |-> path]
              ELSE [result |-> "throws", list |-> <<>>, path |-> path]
         ELSE LET parentPath == PathDirname(path)
              IN  IF ok1
                  THEN [result |-> "items", list |-> getFileList(parentPath), path |-> parentPath]
                  ELSE IF ok2
                  THEN [result |-> "items", list |-> getFileList(path), path |-> path]
                  ELSE [result |-> "throws", list |-> <<>>, path |-> path]
    ELSE [result |-> "undefined", list |-> <<>>, path |-> path]

\* setItems(newItems) after a navigation: the query is cleared, the cursor shown
SetItemsAfterNavigate(nav) ==
    /\ items' = nav.list
    /\ filteredItems' = nav.list
    /\ lineEditor' = setLine(lineEditor, <<>>)
    /\ selection' = InitialSelection(kind, nav.list)
    /\ currentAbsPath' = nav.path
    /\ headerText' = IF nav.path # currentAbsPath THEN Some(PathString(nav.path)) ELSE headerText
    /\ cursorVisible' = TRUE
    /\ UNCHANGED <<pc, kind, screen, handled, reported, emitted, word>>

\* An exception leaves the keypress handler: the process dies where it is
HandlerThrows ==
    /\ pc' = "crashed"
    /\ cursorVisible' = FALSE
    /\ UNCHANGED <<kind, items, filteredItems, selection, headerText, lineEditor,
                   screen, handled, reported, emitted, currentAbsPath, word>>

\* What the registered callback can answer: the file search's onNavigate under
\* every outcome of its directory listings, or, for a custom popup, any value
\* of the declared type string[] | undefined
NavOutcomes(line, action) ==
    IF kind = "fileSearch"
    THEN {onNavigate(line, action, currentAbsPath, ok1, ok2) : ok1, ok2 \in BOOLEAN}
    ELSE {[result |-> "undefined", list |-> <<>>, path |-> currentAbsPath]}
         \cup {[result |-> "items", list |-> l, path |-> currentAbsPath] : l \in HistoryLists}

\* A navigation key with a callback registered: a list replaces the items,
\* undefined ends the popup through menuDone(item, action)
Navigate(line, action, item) ==
    \E nav \in NavOutcomes(line, action) :
        /\ navCall' = Some([line |-> line, action |-> action,
                            result |-> nav.result, list |-> nav.list])
        /\ CASE nav.result = "items" -> SetItemsAfterNavigate(nav)
              [] nav.result = "throws" -> HandlerThrows
              [] OTHER -> MenuDone(item, action)

-----------------------------------------------------------------------------
(* Keyboard: the keypress handler of listenKeyboard, one action per branch *)

Listening == pc = "open" /\ Len(handled) < MaxCalls

\* The Tab branch finishing with no item
TabDoneItemNone(sel) == -1

\* The menu item number the Tab branch hands to menuDone
TabDoneItem(sel) == sel

\* The Backspace branch finishing with the selected item
BackspaceDoneItemSelected(sel) == sel

\* The menu item number the Backspace branch hands to menuDone
BackspaceDoneItem(sel) == -1

\* Tab: navigate into the selected directory, or finish with the selection
KeyTab ==
    /\ Listening
    /\ UNCHANGED <<tokVars, callVars>>
    /\ IF HasOnNavigate(kind)
       THEN Navigate(ItemAt(filteredItems, selection), "navigate", TabDoneItem(selection))
       ELSE /\ MenuDone(TabDoneItem(selection), "navigate")
            /\ navCall' = Undefined

\* Backspace on an empty query: navigate to the parent directory, or finish
KeyBackspaceEmpty ==
    /\ Listening
    /\ UNCHANGED <<tokVars, callVars>>
    /\ getLine(lineEditor) = <<>>
    /\ \E key \in Keys :
        /\ key.name # "tab"
        /\ isBackspace(key.ch)
        /\ IF HasOnNavigate(kind)
           THEN Navigate(Undefined, "navigate-up", BackspaceDoneItem(selection))
           ELSE /\ MenuDone(BackspaceDoneItem(selection), "navigate-up")
                /\ navCall' = Undefined

\* A key of the line editor: edit, then filter the whole list again
KeyLineEdit ==
    /\ Listening
    /\ UNCHANGED <<tokVars, callVars>>
    /\ \E key \in Keys :
        /\ key.name # "tab"
        /\ ~(isBackspace(key.ch) /\ getLine(lineEditor) = <<>>)
        /\ isLineEditKey(key.ch, key)
        /\ LET ed == editLine(lineEditor, key.ch, key)
               filtered == UpdatedItems(kind, items, getLine(ed))
           IN  /\ Len(getLine(ed)) <= MaxLine
               /\ lineEditor' = ed
               /\ filteredItems' = filtered
               /\ selection' = UpdatedSelection(kind, filtered)
               /\ cursorVisible' = TRUE
               /\ navCall' = Undefined
               /\ UNCHANGED <<pc, kind, items, headerText, screen, handled, reported, emitted,
                              currentAbsPath, word>>

\* A key handler of the menu that shows the whole list again when the selection
\* moves
MenuKeyHandlerShowingAll(key) ==
    CASE key.name = "return" -> MenuDone(selection, "select")
      [] key.name = "escape" -> MenuDone(-1, "select")
      [] OTHER ->
            /\ selection' \in IF Len(filteredItems) > 0
                              THEN 0..(Len(filteredItems) - 1)
                              ELSE {selection}
            /\ filteredItems' = items
            /\ cursorVisible' = TRUE
            /\ UNCHANGED <<pc, kind, items, headerText, lineEditor, screen,
                           handled, reported, emitted, currentAbsPath, word>>

\* menu.keyHandler of node-terminal-menu: return and escape call done, the
\* other keys move the selection inside the list
MenuKeyHandler(key) ==
    CASE key.name = "return" -> MenuDone(selection, "select")
      [] key.name = "escape" -> MenuDone(-1, "select")
      [] OTHER ->
            /\ selection' \in IF Len(filteredItems) > 0
                              THEN 0..(Len(filteredItems) - 1)
                              ELSE {selection}
            /\ cursorVisible' = TRUE
            /\ UNCHANGED <<pc, kind, items, filteredItems, headerText, lineEditor, screen,
                           handled, reported, emitted, currentAbsPath, word>>

\* The keypress handler on a key that reaches the menu
MenuKey(key) ==
    /\ Listening
    /\ UNCHANGED <<tokVars, callVars>>
    /\ key.name # "tab"
    /\ ~(isBackspace(key.ch) /\ getLine(lineEditor) = <<>>)
    /\ ~isLineEditKey(key.ch, key)
    /\ MenuKeyHandler(key)
    /\ navCall' = Undefined

\* Any other key goes to the menu
KeyMenu == \E key \in Keys : MenuKey(key)

-----------------------------------------------------------------------------
(* Specification of the popup *)

vars == <<popupVars, tokVars, callVars>>

PopupInit ==
    /\ pc = "idle"
    /\ kind = "none"
    /\ items = <<>>
    /\ filteredItems = <<>>
    /\ selection = 0
    /\ headerText = Undefined
    /\ lineEditor = NewLineEditor(<<>>)
    /\ screen = "normal"
    /\ cursorVisible = TRUE
    /\ handled = <<>>
    /\ reported = <<>>
    /\ emitted = <<>>
    /\ currentAbsPath = RootPath
    /\ word = [prefix |-> <<>>, suffix |-> <<>>]
    /\ navCall = Undefined

\* The tokenizer before it is called
TokIdle ==
    /\ input = <<>>
    /\ pos = 0
    /\ tokens = <<>>
    /\ expectCommand = TRUE
    /\ tokPc = "idle"

\* filterItems before it is called
FilterIdle ==
    /\ filterCall = [kind |-> "none", items |-> <<>>, filter |-> <<>>]
    /\ filterResult = Undefined

Init == PopupInit /\ TokIdle /\ FilterIdle /\ ComponentsIdle

Next ==
    \/ OpenHistoryPopup
    \/ OpenCustomPopup
    \/ OpenFileSearchPopup
    \/ KeyTab
    \/ KeyBackspaceEmpty
    \/ KeyLineEdit
    \/ KeyMenu

Spec == Init /\ [][Next]_vars

-----------------------------------------------------------------------------
(* Specification of the tokenizer *)

MaxInput == 3

\* The command lines tokenize is called on: every line of up to MaxInput
\* characters of TokChars, and lines with longer words and operators
TokInputs ==
    LET TokChars == {" ", "#", "<", ">", "(", ")", "&", "|", "$", "'", "\"", BACKQUOTE, "!", "\\", "a", "1"}
    IN  UNION {[1..n -> TokChars] : n \in 0..MaxInput} \cup
        {<<"e", "c", "h", "o", " ", "h", "e", "l", "l", "o">>,
         <<"l", "s", " ", "-", "l", "a", " ", "/", "t", "m", "p">>,
         <<"a", "=", "1", " ", "b">>,
         <<"c", "a", "t", " ", "<", "(", "l", "s", ")", " ", ">", ">", "|", " ", "f">>,
         <<"e", "c", "h", "o", " ", "$", "(", "l", "s", " ", "'", "a", " ", "b", "'", ")", " ", "#", " ", "c">>,
         <<"n", "o", "g", "l", "o", "b", " ", "l", "s", " ", "*", ".", "c", " ", "&", "&", " ", "c", "d", " ", ".", ".">>,
         <<"e", "c", "h", "o", " ", "\"", "a", " ", "$", "x", "\"", " ", BACKQUOTE, "i", "d", BACKQUOTE, " ", "$", "'", "\\", "n", "'">>,
         <<"!", "-", "2", " ", "$", "(", "(", "1", "+", "(", "2", ")", ")", ")", " ", "2", ">", "&", "1">>,
         <<"i", "f", " ", "x", ";", " ", "t", "h", "e", "n", " ", "y", ";", " ", "f", "i">>,
         <<"e", "c", "h", "o", " ", "'", "a", "b">>,
         <<"$", "(", "\"", "\\">>,
         <<"a", "\"", "\\">>,
         <<"a", "$", "'", "\\">>,
         <<"a", "$", "(", "b">>,
         <<"!", "?", "a", "?", "b">>,
         <<"1", "2", ">", "&", "1">>,
         <<"a", "\\", "$", "(", "b", ")", " ", "c">>,
         <<"$", "(", "a", " ", BACKQUOTE, "b", "\\">>,
         <<"a", "@", "(", "b", "|", "c", ")", " ", "d">>,
         <<"$", "(", "(", "\\", ")", ")", " ", "a">>,
         <<"(", "a", ")", " ", "b">>,
         <<"l", "s", " ", "/", "t", "m", "p", "/", "*", ".", "c">>,
         <<"a", "=", "/", "x", "*", " ", ".", "/", "b">>,
         <<"e", "x", "p", "o", "r", "t", " ", "a", "=", "1">>,
         <<"n", "o", "c", "o", "r", "r", "e", "c", "t", " ", "e", "x", "e", "c", " ", "l", "s">>,
         <<"e", "x", "e", "c", " ", "/", "b", "i", "n", "/", "l", "s", " ", "-", "-", "a", " ", "-", "b", " ", "-", "-", " ", "-">>,
         <<".", "/", "a", "*", " ", "~", "/", "b">>,
         <<"\"", "a", "\\", "\\", "\"", " ", "b">>,
         <<"\"", "a", "\\", "\"", " ", "b">>,
         <<"$", "'", "\\", "'", "'", " ", "'", "a", "\\", "'", " ", "'", "b">>,
         <<BACKQUOTE, "a", "\\", BACKQUOTE, "b", BACKQUOTE, " ", BACKQUOTE, "c">>,
         <<"\"", "#", "\"", " ", "$", "(", "#", ")", " ", "a", "'", "#", "'", " ", "#", " ", "#">>,
         <<" ", "c", "d", " ", " ", "/", "t", "m", "p", ";", "l", "s", " ", " ">>,
         <<"b", "u", "i", "l", "t", "i", "n", " ", "c", "o", "m", "m", "a", "n", "d", " ", "l", "s">>,
         <<"$", "(", "a", " ", "\"", "(", "\"", " ", "(", "b", ")", " ", "'", ")", "'", ")", " ", "c">>,
         <<"x", " ", "$", "(", "a", " ", BACKQUOTE, ")", "\\", BACKQUOTE, ")", BACKQUOTE, " ", "(", "b">>}

\* The branch of the loop body of tokenize that handles the character at pos
TokBranch ==
    LET ch == CharAt(input, pos)
    IN  IF IsSpace(ch) THEN "whitespace"
        ELSE IF ch = "#" THEN "comment"
        ELSE IF ch \in {"<", ">"} /\ CharAt(input, pos + 1) = "(" THEN "process-substitution"
        ELSE IF IsDefined(matchRedirection(input, pos)) THEN "redirection"
        ELSE IF IsDefined(matchCommandSeparator(input, pos)) THEN "commandseparator"
        ELSE IF Slice(input, pos, pos + 3) = <<"$", "(", "(">> THEN "arithmetic-expansion"
        ELSE IF Slice(input, pos, pos + 2) = <<"$", "(">> /\ CharAt(input, pos + 2) # "("
        THEN "command-substitution"
        ELSE IF Slice(input, pos, pos + 2) = <<"$", "'">> THEN "dollar-quoted-argument"
        ELSE IF ch = "'" THEN "single-quoted-argument"
        ELSE IF ch = "\"" THEN "double-quoted-argument"
        ELSE IF ch = BACKQUOTE THEN "back-quoted-argument"
        ELSE IF ch = "!" /\ pos + 1 < Len(input) /\ IsDefined(matchHistoryExpansion(input, pos))
        THEN "history-expansion"
        ELSE IF Len(matchWord(input, pos)) > 0 THEN "word"
        ELSE "unknown-token"

\* The loop is at a character that branch b handles
InLoop(b) == tokPc = "scan" /\ pos < Len(input) /\ TokBranch = b

\* tokens.push of a token with the scan position left where it is
PushTokenInPlace(type, text, nextExpect) ==
    /\ tokens' = Append(tokens, [type |-> type, text |-> text, start |-> pos,
                                 end |-> TokenEnd(pos, text)])
    /\ expectCommand' = nextExpect
    /\ UNCHANGED <<input, pos, tokPc>>

\* tokens.push of a token that starts at pos, and pos += text.length
PushToken(type, text, nextExpect) ==
    /\ tokens' = Append(tokens, [type |-> type, text |-> text, start |-> pos,
                                 end |-> TokenEnd(pos, text)])
    /\ pos' = pos + Len(text)
    /\ expectCommand' = nextExpect
    /\ UNCHANGED <<input, tokPc>>

\* The type of a quoted token
QuotedType(type, result) == IF result.unclosed THEN type \o "-unclosed" ELSE type

TokWhitespace ==
    /\ InLoop("whitespace")
    /\ pos' = pos + 1
    /\ UNCHANGED <<popupVars, callVars, input, tokens, expectCommand, tokPc>>

\* A comment branch whose token is the # alone
TokCommentOfHash ==
    /\ InLoop("comment")
    /\ tokens' = Append(tokens, [type |-> "comment", text |-> <<"#">>,
                                 start |-> pos, end |-> pos])
    /\ tokPc' = "done"
    /\ UNCHANGED <<popupVars, callVars, input, pos, expectCommand>>

TokComment ==
    /\ InLoop("comment")
    /\ tokens' = Append(tokens, [type |-> "comment", text |-> SliceFrom(input, pos),
                                 start |-> pos, end |-> Len(input) - 1])
    /\ tokPc' = "done"
    /\ UNCHANGED <<popupVars, callVars, input, pos, expectCommand>>

TokProcessSubstitution ==
    /\ InLoop("process-substitution")
    /\ PushToken("process-substitution", matchProcessSubstitution(input, pos).text, FALSE)
    /\ UNCHANGED <<popupVars, callVars>>

TokRedirection ==
    /\ InLoop("redirection")
    /\ PushToken("redirection", matchRedirection(input, pos)[1], FALSE)
    /\ UNCHANGED <<popupVars, callVars>>

TokCommandSeparator ==
    /\ InLoop("commandseparator")
    /\ PushToken("commandseparator", matchCommandSeparator(input, pos)[1], TRUE)
    /\ UNCHANGED <<popupVars, callVars>>

TokArithmeticExpansion ==
    /\ InLoop("arithmetic-expansion")
    /\ PushToken("arithmetic-expansion", matchArithmeticExpansion(input, pos).text, FALSE)
    /\ UNCHANGED <<popupVars, callVars>>

TokCommandSubstitution ==
    /\ InLoop("command-substitution")
    /\ PushToken("command-substitution", matchCommandSubstitution(input, pos).text, FALSE)
    /\ UNCHANGED <<popupVars, callVars>>

TokDollarQuoted ==
    /\ InLoop("dollar-quoted-argument")
    /\ LET result == matchDollarQuotedString(input, pos)
       IN  PushToken(QuotedType("dollar-quoted-argument", result), result.text, FALSE)
    /\ UNCHANGED <<popupVars, callVars>>

TokSingleQuoted ==
    /\ InLoop("single-quoted-argument")
    /\ LET result == matchSingleQuotedString(input, pos)
       IN  PushToken(QuotedType("single-quoted-argument", result), result.text, FALSE)
    /\ UNCHANGED <<popupVars, callVars>>

TokDoubleQuoted ==
    /\ InLoop("double-quoted-argument")
    /\ LET result == matchDoubleQuotedString(input, pos)
       IN  PushToken(QuotedType("double-quoted-argument", result), result.text, FALSE)
    /\ UNCHANGED <<popupVars, callVars>>

TokBackQuoted ==
    /\ InLoop("back-quoted-argument")
    /\ LET result == matchBacktickSubstitution(input, pos)
       IN  PushToken(QuotedType("back-quoted-argument", result), result.text, FALSE)
    /\ UNCHANGED <<popupVars, callVars>>

TokHistoryExpansion ==
    /\ InLoop("history-expansion")
    /\ PushToken("history-expansion", matchHistoryExpansion(input, pos)[1], FALSE)
    /\ UNCHANGED <<popupVars, callVars>>

\* A word: classified, and the next word is a command after a precommand or
\* an assignment
TokWord ==
    /\ InLoop("word")
    /\ LET token == classifyWord(matchWord(input, pos), expectCommand, pos)
       IN  /\ tokens' = Append(tokens, token)
           /\ pos' = pos + Len(token.text)
           /\ expectCommand' = (token.type \in {"precommand", "assign"})
    /\ UNCHANGED <<popupVars, callVars, input, tokPc>>

TokUnknown ==
    /\ InLoop("unknown-token")
    /\ tokens' = Append(tokens, [type |-> "unknown-token", text |-> <<CharAt(input, pos)>>,
                                 start |-> pos, end |-> pos])
    /\ pos' = pos + 1
    /\ UNCHANGED <<popupVars, callVars, input, expectCommand, tokPc>>

\* The loop condition fails: return tokens
TokReturn ==
    /\ tokPc = "scan"
    /\ pos >= Len(input)
    /\ tokPc' = "done"
    /\ UNCHANGED <<popupVars, callVars, input, pos, tokens, expectCommand>>

\* tokenize(input) has been called
TokInit ==
    /\ PopupInit
    /\ FilterIdle
    /\ ComponentsIdle
    /\ input \in TokInputs
    /\ pos = 0
    /\ tokens = <<>>
    /\ expectCommand = TRUE
    /\ tokPc = "scan"

TokNext ==
    \/ TokWhitespace
    \/ TokComment
    \/ TokProcessSubstitution
    \/ TokRedirection
    \/ TokCommandSeparator
    \/ TokArithmeticExpansion
    \/ TokCommandSubstitution
    \/ TokDollarQuoted
    \/ TokSingleQuoted
    \/ TokDoubleQuoted
    \/ TokBackQuoted
    \/ TokHistoryExpansion
    \/ TokWord
    \/ TokUnknown
    \/ TokReturn

TokSpec == TokInit /\ [][TokNext]_vars

\* The calls on the sample lines and on the lines shorter than MaxInput
TokFairInit == TokInit /\ Len(input) # MaxInput

\* The loop runs on as long as it can
TokFairSpec == TokFairInit /\ [][TokNext]_vars /\ WF_vars(TokNext)

-----------------------------------------------------------------------------
(* Specification of the filter *)

\* Longest query the filter is examined on
MaxQuery == 3

\* The queries filterItems is called on
QueryStrings == UNION {[1..n -> {"a", "b", "B", " "}] : n \in 0..MaxQuery}

\* this.filterItems(items, filter) returns
FilterItemsCall ==
    /\ ~IsDefined(filterResult)
    /\ filterResult' = Some(filterItems(filterCall.kind, filterCall.items, filterCall.filter))
    /\ UNCHANGED <<toolVars, popupVars, tokVars, filterCall, hlVars, edVars, styleVars, cfgVars>>

\* filterItems has been called on a list and a query
FilterInit ==
    /\ PopupInit
    /\ TokIdle
    /\ ComponentsIdle
    /\ filterCall \in [kind : {"history", "fileSearch", "custom"},
                       items : HistoryLists \cup {getFileList(d) : d \in Dirs},
                       filter : QueryStrings]
    /\ filterResult = Undefined

FilterSpec == FilterInit /\ [][FilterItemsCall]_vars

-----------------------------------------------------------------------------
(* Specification of the highlighter *)

\* highlightCommand: colorize(cmd, tokenize(cmd)) once tokenize has returned
HighlightCommand ==
    /\ tokPc = "done"
    /\ ~IsDefined(highlighted)
    /\ highlighted' = Some(colorize(input, tokens))
    /\ UNCHANGED <<toolVars, popupVars, tokVars, filterVars, SyntaxHighlight, tokenStyles, edVars, styleVars, cfgVars>>

HlNext == TokNext \/ HighlightCommand

\* highlightCommand on the sample lines and on the lines shorter than MaxInput
HlSpec == TokFairInit /\ [][HlNext]_vars

-----------------------------------------------------------------------------
(* Specification of the line editor *)

\* The keys a line editor is given: those of the popups and two more
\* characters, as far as isLineEditKey accepts them
EditKeys ==
    {key \in Keys \cup {KeypressKey(c, c) : c \in {"1", "-"}} : isLineEditKey(key.ch, key)}

\* editor.editLine(ch, key); a key that makes the line longer is given only
\* to a line shorter than MaxLine
EditLine(key) ==
    /\ \/ Len(getLine(editLine(editor, key.ch, key))) <= Len(getLine(editor))
       \/ Len(getLine(editor)) < MaxLine
    /\ editor' = editLine(editor, key.ch, key)
    /\ UNCHANGED <<toolVars, popupVars, tokVars, filterVars, hlVars, styleVars, cfgVars>>

\* new LineEditor(line, 1) on the lines of the tests
NewEditor ==
    /\ \E line \in {<<"h", "e", "l", "l", "o">>,
                     <<"h", "e", "l", "l", "o", " ", "w", "o", "r", "l", "d">>,
                     <<"a", "-", "b", "1", " ", " ", "c">>} :
            editor' = NewLineEditor(line)
    /\ UNCHANGED <<toolVars, popupVars, tokVars, filterVars, hlVars, styleVars, cfgVars>>

EdNext == (\E key \in EditKeys : EditLine(key)) \/ NewEditor

EdSpec == Init /\ [][EdNext]_vars

-----------------------------------------------------------------------------
(* Specification of parseStyleString *)

\* Most parts of a style that parseStyleString is examined on
MaxParts == 2

\* The parts the styles are made of
StyleSampleParts ==
    <<<<"f", "g", "=", "r", "e", "d">>,
      <<"b", "g", "=", "#", "f", "f", "8", "8", "0", "0">>,
      <<"b", "o", "l", "d">>,
      <<" ", "U", "n", "d", "e", "r", "l", "i", "n", "e", " ">>,
      <<"f", "g", "=", "1", "2">>,
      <<"f", "g", "=", "3", "0", "0">>,
      <<"b", "g", "=", "B", "r", "i", "g", "h", "t", "-", "B", "l", "u", "e">>,
      <<"n", "o", "n", "e">>,
      <<>>,
      <<"u", "n", "k", "n", "o", "w", "n", "s", "t", "y", "l", "e">>,
      <<"f", "g", "=", "#", "x", "y", "z">>,
      <<"f", "g", "=", "c", "o", "n", "s", "t", "r", "u", "c", "t", "o", "r">>,
      <<"s", "t", "a", "n", "d", "o", "u", "t">>>>

\* parseStyleString(style) returns or throws; style is up to MaxParts of
\* the parts, joined by commas
ParseStyleStringCall ==
    /\ ~IsDefined(styleCall)
    /\ \E n \in 1..MaxParts : \E choice \in [1..n -> DOMAIN StyleSampleParts] :
            LET style == JoinWith([i \in 1..n |-> StyleSampleParts[choice[i]]], <<",">>)
            IN  /\ styleCall' = Some(style)
                /\ styleResult' = parseStyleString(style)
    /\ UNCHANGED <<toolVars, popupVars, tokVars, filterVars, hlVars, edVars, cfgVars>>

StyleSpec == Init /\ [][ParseStyleStringCall]_vars

-----------------------------------------------------------------------------
(* Specification of the configuration *)

\* The ZEEK_ variables of the environments initConfig is examined in
ConfigMaps ==
    [ZEEK_MENU_ROW : {Undefined} \cup {Some(v) : v \in {<<"1">>, <<"7">>}},
     ZEEK_MENU_SIZE : {Undefined} \cup {Some(v) : v \in
        {<<"1", "0", "0", "x", "3", "0">>,
         <<"9", "0", "x", "2", "0", "c", "o", "l", "s">>,
         <<"1", "2", ".", "5", "x", "7">>,
         <<"1", "2", "0">>,
         <<"x">>,
         <<"8", "0", "x">>,
         <<"a", "x", "b">>,
         <<"8", "0", "x", "4", "0", "x", "2", "0">>,
         <<"5", "0", "X", "2", "0">>,
         <<>>}},
     ZEEK_LINE_EDIT_OVER_MENU : {Undefined} \cup {Some(v) : v \in {<<"Y", "e", "s">>, <<"n", "o">>}},
     ZEEK_MAX_CMD_HISTORY_LINES : {Undefined} \cup {Some(v) : v \in {<<"5", "0", "0">>}},
     ZEEK_MAX_DIR_HISTORY_LINES : {Undefined} \cup {Some(v) : v \in {<<"5", "k">>}}]

\* initConfig, called once when the program starts: the ZEEK_ variables of
\* the environment are applied to Config
InitConfig ==
    /\ ~IsDefined(configMap)
    /\ \E map \in ConfigMaps :
            /\ configMap' = Some(map)
            /\ Config' = applyConfig(Config, map)
    /\ UNCHANGED <<toolVars, popupVars, tokVars, filterVars, hlVars, edVars, styleVars>>

CfgSpec == Init /\ [][InitConfig]_vars

-----------------------------------------------------------------------------
(* Specification of the style resolver *)

\* What JSON.parse makes of the ZEEK_HIGHLIGHT_STYLES of the environments:
\* text that is no JSON, and objects whose values are strings or are not
HighlightStyles ==
    {[valid |-> FALSE, entries |-> <<>>],
     [valid |-> TRUE, entries |-> <<>>],
     [valid |-> TRUE, entries |-> <<[tokenType |-> "command", style |-> Some(<<"f", "g", "=", "r", "e", "d">>)]>>],
     [valid |-> TRUE, entries |-> <<[tokenType |-> "builtin", style |-> Some(<<"f", "g", "=", "1", "2", ",", "b", "o", "l", "d">>)], [tokenType |-> "comment", style |-> Some(<<"n", "o", "n", "e">>)]>>],
     [valid |-> TRUE, entries |-> <<[tokenType |-> "command", style |-> Some(<<>>)], [tokenType |-> "path", style |-> Undefined], [tokenType |-> "commandseparator", style |-> Some(<<"b", "g", "=", "#", "f", "f", "8", "8", "0", "0">>)]>>],
     [valid |-> TRUE, entries |-> <<[tokenType |-> "alias", style |-> Some(<<"f", "g", "=", "b", "l", "u", "e">>)], [tokenType |-> "default", style |-> Some(<<"U", "n", "d", "e", "r", "l", "i", "n", "e">>)], [tokenType |-> "unknown-token", style |-> Some(<<"n", "o", "s", "t", "y", "l", "e">>)]>>]}

\* initConfig of the newest config.ts, called when the program starts, in
\* an environment whose only ZEEK_ variable is ZEEK_HIGHLIGHT_STYLES
InitConfigWithStyles ==
    /\ ~IsDefined(configMap)
    /\ tokPc = "scan" /\ pos = 0 /\ tokens = <<>>
    /\ \E json \in HighlightStyles :
            LET map == [ZEEK_MENU_ROW |-> Undefined, ZEEK_MENU_SIZE |-> Undefined,
                        ZEEK_LINE_EDIT_OVER_MENU |-> Undefined,
                        ZEEK_MAX_CMD_HISTORY_LINES |-> Undefined,
                        ZEEK_MAX_DIR_HISTORY_LINES |-> Undefined,
                        ZEEK_HIGHLIGHT_STYLES |-> Some(json)]
            IN  /\ configMap' = Some(map)
                /\ Config' = applyConfig(Config, map)
                /\ SyntaxHighlight' = applyHighlightStyles(SyntaxHighlight, json)
    /\ UNCHANGED <<toolVars, popupVars, tokVars, filterVars, highlighted, tokenStyles, edVars, styleVars>>

\* tokenize runs when a line of the popup is highlighted, after initConfig
TokenizeConfigured == IsDefined(configMap) /\ TokNext

\* highlightCommand with the lazily resolved styles: the first call builds
\* the render functions from SyntaxHighlight
HighlightResolved ==
    /\ tokPc = "done"
    /\ IsDefined(configMap)
    /\ ~IsDefined(highlighted)
    /\ LET styles == IF IsDefined(tokenStyles) THEN tokenStyles[1]
                      ELSE resolveTokenStyles(SyntaxHighlight)
       IN  /\ tokenStyles' = Some(styles)
           /\ highlighted' = Some(colorizeResolved(styles, input, tokens))
    /\ UNCHANGED <<toolVars, popupVars, tokVars, filterVars, SyntaxHighlight, edVars, styleVars, cfgVars>>

RsNext == InitConfigWithStyles \/ TokenizeConfigured \/ HighlightResolved

\* The program starts with one of the sample lines to highlight
RsInit == TokInit /\ Len(input) > MaxInput

RsSpec == RsInit /\ [][RsNext]_vars

-----------------------------------------------------------------------------
(* Specification of the directory history: zeek store-dir, run by chpwd *)

\* Bounds: calls of addCwdToHistory, and configured history lines
MaxStores == 4
MaxDirHistoryLines == 2

\* Working directories, one of them with a line break in its name
SampleDirs ==
    {<<"/", "a">>, <<"/", "b">>, <<"/", "c">>, <<"/", "a", "\n", "b">>}

\* zeek store-dir: addCwdToHistory in the working directory cwd
StoreDir ==
    /\ Len(storedDirs) < MaxStores
    /\ \E cwd \in SampleDirs :
            /\ dirHistoryFile' = Some(addCwdToHistory(dirHistoryFile, cwd, Config.maxDirHistoryLines))
            /\ storedDirs' = Append(storedDirs, cwd)
    /\ UNCHANGED <<dimVars, wordVars, popupVars, tokVars, filterVars, hlVars, edVars, styleVars, cfgVars>>

\* No history file yet, and ZEEK_MAX_DIR_HISTORY_LINES applied by initConfig
DhInit ==
    /\ PopupInit /\ TokIdle /\ FilterIdle /\ CallsIdle
    /\ configMap = Undefined
    /\ Config \in {[DefaultConfig EXCEPT !.maxDirHistoryLines = n] : n \in 1..MaxDirHistoryLines}

DhSpec == DhInit /\ [][StoreDir]_vars

-----------------------------------------------------------------------------
(* Specification of the menu's geometry *)

\* Bounds: columns and rows of the terminal, and the configured menu size
MaxTerminal == 5
MaxMenuSize == 6

\* Candidate lists
DimItemLists ==
    {<<>>,
     <<<<"l", "s">>>>,
     <<<<"l", "s">>, <<"c", "d", " ", "a">>, <<"p", "w", "d">>>>}

\* createMenu calling computeDimensions
ComputeDimensions ==
    /\ ~IsDefined(dimCall)
    /\ \E columns \in 1..MaxTerminal, rows \in 1..MaxTerminal, its \in DimItemLists :
            /\ dimCall' = Some([columns |-> columns, rows |-> rows, items |-> its])
            /\ dimensions' = Some(computeDimensions(Config, columns, rows, its))
    /\ UNCHANGED <<dhVars, wordVars, popupVars, tokVars, filterVars, hlVars, edVars, styleVars, cfgVars>>

\* ZEEK_MENU_SIZE applied by initConfig
DimInit ==
    /\ PopupInit /\ TokIdle /\ FilterIdle /\ CallsIdle
    /\ configMap = Undefined
    /\ Config \in {[DefaultConfig EXCEPT !.menuWidth = w, !.menuHeight = h] :
                        w, h \in (-MaxMenuSize)..MaxMenuSize}

DimSpec == DimInit /\ [][ComputeDimensions]_vars

-----------------------------------------------------------------------------
(* Specification of the word under the cursor *)

\* Bound: the length of each buffer
MaxBuffer == 2

RECURSIVE StringsUpTo(_, _)
\* The strings of at most n characters of the alphabet
StringsUpTo(alphabet, n) ==
    IF n = 0 THEN {<<>>}
    ELSE StringsUpTo(alphabet, n - 1)
         \cup {Append(t, c) : t \in StringsUpTo(alphabet, n - 1), c \in alphabet}

\* The buffers of zsh at the call
CursorBuffers == StringsUpTo({"a", "/", " ", "\t"}, MaxBuffer)

\* openFileSearchPopup calling getWordUnderCursor
GetWordUnderCursor ==
    /\ ~IsDefined(wordCall)
    /\ \E lbuffer, rbuffer \in CursorBuffers :
            /\ wordCall' = Some([lbuffer |-> lbuffer, rbuffer |-> rbuffer])
            /\ wordResult' = Some(getWordUnderCursor(lbuffer, rbuffer))
    /\ UNCHANGED <<dhVars, dimVars, popupVars, tokVars, filterVars, hlVars, edVars, styleVars, cfgVars>>

WordSpec == Init /\ [][GetWordUnderCursor]_vars

-----------------------------------------------------------------------------
(* Properties of the tokenizer *)

\* Some token covers offset i of the input
Covered(i) == \E k \in 1..Len(tokens) : tokens[k].start <= i /\ i <= tokens[k].end

\* The offsets the scan has passed
Scanned == IF tokPc = "done" THEN 0..(Len(input) - 1) ELSE 0..(pos - 1)

\* C1: the spans of the tokens are strictly increasing and do not overlap, the
\* text of each token is the slice of the input from its start offset through
\* its end offset inclusive, and every character outside all spans is whitespace
C1_TokenSpans ==
    /\ \A k \in 1..Len(tokens) :
        /\ 0 <= tokens[k].start
        /\ tokens[k].start <= tokens[k].end
        /\ tokens[k].end < Len(input)
        /\ tokens[k].text = Slice(input, tokens[k].start, tokens[k].end + 1)
    /\ \A k \in 1..(Len(tokens) - 1) :
        /\ tokens[k].start < tokens[k + 1].start
        /\ tokens[k].end < tokens[k + 1].start
    /\ \A i \in Scanned : ~Covered(i) => IsSpace(CharAt(input, i))

\* tokenize has returned several tokens, one longer than a character, with
\* skipped whitespace between two of them
C1_Witness ==
    /\ tokPc = "done"
    /\ Len(tokens) >= 2
    /\ \E k \in 1..Len(tokens) : Len(tokens[k].text) >= 2
    /\ \E k \in 1..(Len(tokens) - 1) : tokens[k + 1].start > tokens[k].end + 1
    /\ C1_TokenSpans

\* The last token pushed
LastToken == tokens[Len(tokens)]

\* C15: every iteration of the loop of tokenize either stops at a comment or
\* moves the scan position forward by at least one character, never past the
\* end of the input; a character no rule recognizes becomes a one-character
\* unknown-token; and tokenize returns.
C15_TokenizeTerminates ==
    /\ [][(tokPc = "scan" /\ pos < Len(input)) =>
            /\ (TokComment /\ tokPc' = "done" /\ LastToken'.type = "comment")
               \/ (tokPc' = "scan" /\ pos' > pos /\ pos' <= Len(input))
            /\ TokBranch = "unknown-token" =>
                    /\ pos' = pos + 1
                    /\ tokens' = Append(tokens, [type |-> "unknown-token",
                                                 text |-> <<CharAt(input, pos)>>,
                                                 start |-> pos, end |-> pos])]_vars
    /\ <>(tokPc = "done")

\* tokenize has returned after an unknown-token and other tokens
C15_Witness ==
    /\ tokPc = "done"
    /\ Len(tokens) >= 3
    /\ \E k \in 1..Len(tokens) : tokens[k].type = "unknown-token"
    /\ LastToken.end = Len(input) - 1

\* The types classifyWord gives in command position only
CommandTypes == {"reserved-word", "precommand", "builtin", "command"}

C17_ClassifyPriority ==
    [][TokWord =>
        LET w == LastToken'.text
            type == LastToken'.type
            early == IsAssignment(w) \/ containsGlob(w) \/ looksLikePath(w)
        IN  /\ IsAssignment(w) => type = "assign"
            /\ (~IsAssignment(w) /\ containsGlob(w)) => type = "globbing"
            /\ (~IsAssignment(w) /\ ~containsGlob(w) /\ looksLikePath(w)) => type = "path"
            /\ early => type \notin CommandTypes
            /\ (~early /\ expectCommand) =>
                    type = (IF w \in RESERVED_WORDS THEN "reserved-word"
                            ELSE IF w \in PRECOMMANDS THEN "precommand"
                            ELSE IF w \in BUILTINS THEN "builtin"
                            ELSE "command")
            /\ (~early /\ ~expectCommand) =>
                    type \in {"single-hyphen-option", "double-hyphen-option", "default"}]_vars

\* A glob that is also a path was scanned in command position, and a path
\* after it
C17_Witness ==
    /\ tokPc = "done"
    /\ Len(tokens) = 2
    /\ tokens[1].type = "globbing"
    /\ looksLikePath(tokens[1].text)
    /\ tokens[2].type = "path"

\* The quoted constructs that begin a token: the length of the opening, the
\* closing delimiter and whether a backslash escapes the next character
QuoteKinds ==
    [type |-> {"single-quoted-argument", "double-quoted-argument", "dollar-quoted-argument",
               "back-quoted-argument"},
     open |-> [t \in {"single-quoted-argument", "double-quoted-argument",
                       "dollar-quoted-argument", "back-quoted-argument"} |->
                    IF t = "dollar-quoted-argument" THEN 2 ELSE 1],
     close |-> [t \in {"single-quoted-argument", "double-quoted-argument",
                        "dollar-quoted-argument", "back-quoted-argument"} |->
                    CASE t = "double-quoted-argument" -> "\""
                      [] t = "back-quoted-argument" -> BACKQUOTE
                      [] OTHER -> "'"]]

\* The number of backslashes in a row that end just before offset j of the
\* input, counted from offset lo on
BackslashesBefore(lo, j) ==
    Cardinality({i \in lo..(j - 1) : \A m \in i..(j - 1) : CharAt(input, m) = "\\"})

\* The offsets after the opening of the construct of kind t at pos that hold
\* its closing delimiter, unescaped where backslash escapes count
ClosersOf(t) ==
    {j \in (pos + QuoteKinds.open[t])..(Len(input) - 1) :
        /\ CharAt(input, j) = QuoteKinds.close[t]
        /\ t # "single-quoted-argument" =>
                BackslashesBefore(pos + QuoteKinds.open[t], j) % 2 = 0}

\* C18: a quoted construct that begins a token is -unclosed exactly when no
\* closing delimiter, unescaped for the kinds with backslash escapes, follows
\* its opening; an unclosed token ends at the last character of the input and
\* a closed one at its first closing delimiter.
C18_QuotedUnclosed ==
    [][\A t \in QuoteKinds.type :
        (InLoop(t) /\ TokNext) =>
            /\ LastToken'.start = pos
            /\ IF ClosersOf(t) = {}
               THEN /\ LastToken'.type = t \o "-unclosed"
                    /\ LastToken'.end = Len(input) - 1
               ELSE /\ LastToken'.type = t
                    /\ LastToken'.end \in ClosersOf(t)
                    /\ \A j \in ClosersOf(t) : LastToken'.end <= j]_vars

\* A dollar-quoted token was closed after an escaped quote, a single-quoted
\* one at the quote after a backslash, and an unclosed token followed them
C18_Witness ==
    /\ tokPc = "done"
    /\ Len(tokens) = 3
    /\ tokens[1].type = "dollar-quoted-argument"
    /\ tokens[1].text = <<"$", "'", "\\", "'", "'">>
    /\ tokens[2].type = "single-quoted-argument"
    /\ tokens[2].text = <<"'", "a", "\\", "'">>
    /\ tokens[3].type = "single-quoted-argument-unclosed"
    /\ tokens[3].end = Len(input) - 1

\* The listed redirection operators that start the input after the run of
\* digits at the scan position
OperatorsHere ==
    {REDIRECTION_PATTERNS[k] : k \in {m \in DOMAIN REDIRECTION_PATTERNS :
        StartsWith(SliceFrom(input, RunEnd(input, pos, "\\d")), REDIRECTION_PATTERNS[m])}}

\* The next token is one redirection of the digits at the scan position and
\* the longest listed operator after them
EmitsLongestRedirection ==
    /\ Len(tokens') = Len(tokens) + 1
    /\ LastToken'.type = "redirection"
    /\ LastToken'.start = pos
    /\ \E op \in OperatorsHere :
            /\ \A other \in OperatorsHere : Len(other) <= Len(op)
            /\ LastToken'.text = Slice(input, pos, RunEnd(input, pos, "\\d")) \o op

\* A token & of type commandseparator is never directly followed by a
\* redirection that begins with >; a scan position at &&, &! or &| yields
\* that separator
AmpersandRules ==
    /\ \A i \in 1..(Len(tokens') - 1) :
            ~ /\ tokens'[i].type = "commandseparator"
              /\ tokens'[i].text = <<"&">>
              /\ tokens'[i + 1].type = "redirection"
              /\ tokens'[i + 1].start = tokens'[i].end + 1
              /\ tokens'[i + 1].text[1] = ">"
    /\ Slice(input, pos, pos + 2) \in {<<"&", "&">>, <<"&", "!">>, <<"&", "|">>} =>
            /\ LastToken'.type = "commandseparator"
            /\ LastToken'.text = Slice(input, pos, pos + 2)

\* C19 as stated: wherever the input at the scan position, after an optional
\* run of digits, begins with a listed redirection operator, one redirection
\* token of the digits and the longest matching operator is emitted.
C19_RedirectionWherever ==
    [][(tokPc = "scan" /\ pos < Len(input) /\ OperatorsHere # {} /\ TokNext) =>
            EmitsLongestRedirection]_vars

\* C19: at a scan position that is not a < or > directly followed by an
\* opening parenthesis and where the input, after an optional run of digits,
\* begins with a listed redirection operator, one redirection token of the
\* digits and the longest matching operator is emitted; &> and &>> are never
\* split into & and a redirection, and &&, &! and &| stay separators.
C19_RedirectionLongest ==
    [][(tokPc = "scan" /\ pos < Len(input) /\ TokNext) =>
            /\ (OperatorsHere # {} /\ ~(CharAt(input, pos) \in {"<", ">"} /\
                                          CharAt(input, pos + 1) = "(")) =>
                    EmitsLongestRedirection
            /\ AmpersandRules]_vars

\* The line &>> became one redirection token of three characters
C19_Witness ==
    /\ tokPc = "done"
    /\ input = <<"&", ">", ">">>
    /\ Len(tokens) = 1
    /\ tokens[1].type = "redirection"
    /\ tokens[1].text = <<"&", ">", ">">>

DocumentedPrecommands ==
    {<<"n", "o", "g", "l", "o", "b">>,
     <<"b", "u", "i", "l", "t", "i", "n">>,
     <<"c", "o", "m", "m", "a", "n", "d">>,
     <<"e", "x", "e", "c">>,
     <<"n", "o", "c", "o", "r", "r", "e", "c", "t">>}

\* C32: each documented precommand modifier in command position is classified
\* precommand, and the word after it is still in command position.
C32_PrecommandKeepsCommandPosition ==
    [][(TokWord /\ expectCommand /\ matchWord(input, pos) \in DocumentedPrecommands) =>
            /\ tokens'[Len(tokens')].type = "precommand"
            /\ expectCommand']_vars

\* The offset that ends the quoted region opened at offset i of the input:
\* its first closing quote, unescaped unless the quote is ', or the end of the
\* input
RegionEnd(i) ==
    LET closers == {j \in (i + 1)..(Len(input) - 1) :
                        /\ CharAt(input, j) = CharAt(input, i)
                        /\ CharAt(input, i) # "'" => BackslashesBefore(i + 1, j) % 2 = 0}
    IN  IF closers = {} THEN Len(input) ELSE CHOOSE j \in closers : \A k \in closers : j <= k

RECURSIVE OutsideQuotes(_)
\* The offsets from i on that are in no quoted region
OutsideQuotes(i) ==
    IF i >= Len(input) THEN {}
    ELSE IF CharAt(input, i) \in {"'", "\"", BACKQUOTE} THEN OutsideQuotes(RegionEnd(i) + 1)
    ELSE {i} \cup OutsideQuotes(i + 1)

\* The offset of the ) that matches the $( at pos, or the last offset of the
\* input when there is none
SubstitutionEnd ==
    LET outside == OutsideQuotes(pos + 2)
        depth(p) == 1 + Cardinality({q \in outside : q <= p /\ CharAt(input, q) = "("})
                      - Cardinality({q \in outside : q <= p /\ CharAt(input, q) = ")"})
        matching == {p \in outside : CharAt(input, p) = ")" /\ depth(p) = 0}
    IN  IF matching = {} THEN Len(input) - 1
        ELSE CHOOSE p \in matching : \A q \in matching : p <= q

\* C35: at a $( that is not $(( the scan pushes one command-substitution
\* token that ends at the matching ), parentheses being counted outside the
\* quoted regions only, or at the end of the input when no ) matches.
C35_CommandSubstitutionSpan ==
    [][(tokPc = "scan" /\ pos + 1 < Len(input) /\ CharAt(input, pos) = "$" /\
        CharAt(input, pos + 1) = "(" /\ CharAt(input, pos + 2) # "(" /\ tokens' # tokens) =>
            /\ tokens' = Append(tokens, [type |-> "command-substitution",
                                          text |-> SubSeq(input, pos + 1, SubstitutionEnd + 1),
                                          start |-> pos, end |-> SubstitutionEnd])
            /\ pos' = SubstitutionEnd + 1]_vars

\* A substitution with a nested pair of parentheses and with parentheses in
\* quotes has become one token, and the word after it the next one
C35_Witness ==
    /\ Len(tokens) = 2
    /\ tokens[1].type = "command-substitution"
    /\ tokens[1].text = <<"$", "(", "a", " ", "\"", "(", "\"", " ", "(", "b", ")", " ", "'", ")", "'", ")">>
    /\ tokens[2].text = <<"c">>

-----------------------------------------------------------------------------
(* Properties of the highlighter *)

\* The indexes, in order, of the characters of out that are not part of an
\* escape sequence (ESC up to the next m)
VisibleIndexes(out) ==
    LET visible == {i \in 1..Len(out) :
                        ~\E j \in 1..i : out[j] = ESC /\ \A k \in (j + 1)..(i - 1) : out[k] # "m"}
    IN  [n \in 1..Cardinality(visible) |->
            CHOOSE i \in visible : Cardinality({j \in visible : j < i}) = n - 1]

\* C21: removing the escape sequences from what highlightCommand returns
\* gives the line back; the characters of a token stand together right after
\* an escape sequence, and characters outside the tokens stand together.
C21_HighlightPreservesLine ==
    IsDefined(highlighted) =>
        LET out == highlighted[1]
            vis == VisibleIndexes(out)
        IN  /\ Len(vis) = Len(input)
            /\ \A i \in 1..Len(vis) : out[vis[i]] = input[i]
            /\ \A k \in 1..Len(tokens) :
                    /\ vis[tokens[k].start + 1] > 1
                    /\ out[vis[tokens[k].start + 1] - 1] = "m"
                    /\ \A i \in (tokens[k].start + 1)..tokens[k].end :
                            vis[i + 1] = vis[i] + 1
            /\ \A i \in 1..(Len(input) - 1) :
                    (~Covered(i - 1) /\ ~Covered(i)) => vis[i + 1] = vis[i] + 1

\* A line with an underlined builtin, text between the tokens and white
\* space after the last token was highlighted
C21_Witness ==
    /\ IsDefined(highlighted)
    /\ \E k \in 1..Len(tokens) : tokens[k].type = "builtin"
    /\ Len(tokens) >= 3
    /\ Len(highlighted[1]) > Len(input) + 3 * 17

-----------------------------------------------------------------------------
(* Properties of the line editor *)

\* The keys that move the cursor
MoveKey ==
    [left |-> KeypressKey("", "left"), right |-> KeypressKey("", "right"),
     home |-> KeypressKey("", "home"), end |-> KeypressKey("", "end"),
     wordBackward |-> MetaKey("b"), wordForward |-> MetaKey("f"),
     ctrlA |-> KeypressKey(CTRL_A, "a"), ctrlE |-> KeypressKey(CTRL_E, "e")]

\* The reported cursor column
Column == getCursorPosition(editor).col

\* A letter or a digit
IsWordChar(ch) == ch \in Digits \cup LowerLetters \cup UpperLetters

\* C23: the keys that move the cursor leave the line of getLine as it is.
C23_MovesKeepLine ==
    [][\A name \in DOMAIN MoveKey :
        EditLine(MoveKey[name]) => getLine(editor') = getLine(editor)]_vars

\* The cursor stands between hello and world after it was moved there
C23_Witness ==
    /\ editor.left = <<"h", "e", "l", "l", "o", " ">>
    /\ editor.right = <<"w", "o", "r", "l", "d">>

\* C24: the column is 1 + length(left) and lies in 1..length(line)+1; left
\* and right change it by exactly one unless the cursor is at that end of the
\* line, home and Ctrl-A set it to 1, end and Ctrl-E to length(line)+1.
C24_CursorColumn ==
    /\ [](Column = 1 + Len(editor.left) /\ Column \in 1..(Len(getLine(editor)) + 1))
    /\ [][/\ EditLine(MoveKey.left) => Column' = IF Column = 1 THEN 1 ELSE Column - 1
          /\ EditLine(MoveKey.right) =>
                Column' = IF Column = Len(getLine(editor)) + 1 THEN Column ELSE Column + 1
          /\ (EditLine(MoveKey.home) \/ EditLine(MoveKey.ctrlA)) => Column' = 1
          /\ (EditLine(MoveKey.end) \/ EditLine(MoveKey.ctrlE)) =>
                Column' = Len(getLine(editor)) + 1]_vars

\* The cursor is at column 5 of hello, one to the left of the end
C24_Witness ==
    /\ getLine(editor) = <<"h", "e", "l", "l", "o">>
    /\ Column = 5

\* C25: backspace removes the last character of left and nothing else, and
\* nothing at the start of the line; forward-delete removes the first
\* character of right and nothing else, and nothing at the end of the line.
C25_DeleteOneCharacter ==
    [][/\ \A ch \in {BACKSPACE1, BACKSPACE2} :
            EditLine(KeypressKey(ch, "backspace")) =>
                /\ editor'.right = editor.right
                /\ editor'.left = IF Len(editor.left) = 0 THEN <<>>
                                  ELSE SubSeq(editor.left, 1, Len(editor.left) - 1)
       /\ EditLine(KeypressKey("", "delete")) =>
                /\ editor'.left = editor.left
                /\ editor'.right = IF Len(editor.right) = 0 THEN <<>>
                                   ELSE SubSeq(editor.right, 2, Len(editor.right))]_vars

\* hello after two moves to the left and a forward-delete
C25_Witness ==
    /\ editor.left = <<"h", "e", "l">>
    /\ editor.right = <<"o">>

\* C26: a typed printable character goes to the end of left; right stays,
\* the line is left + char + right and the column grows by one.
C26_TypedCharacterInserted ==
    [][\A c \in {"a", "b", " ", "1", "-"} :
        EditLine(KeypressKey(c, c)) =>
            /\ editor'.left = editor.left \o <<c>>
            /\ editor'.right = editor.right
            /\ getLine(editor') = editor.left \o <<c>> \o editor.right
            /\ Column' = Column + 1]_vars

\* The line -a1, which is part of no given line, with the cursor before the 1
C26_Witness ==
    /\ editor.left = <<"-", "a">>
    /\ editor.right = <<"1">>

\* Offset p of the line is a word start
WordStart(line, p) ==
    p = 0 \/ (p < Len(line) /\ IsWordChar(line[p + 1]) /\ ~IsWordChar(line[p]))

\* Offset p of the line is a word end
WordEnd(line, p) ==
    p = Len(line) \/ (p > 0 /\ ~IsWordChar(line[p + 1]) /\ IsWordChar(line[p]))

\* C27: move-word-backward puts the cursor at the largest word start left of
\* it and leaves it at offset 0.
C27_WordBackward ==
    [][EditLine(MoveKey.wordBackward) =>
        LET line == getLine(editor)
            at == Len(editor.left)
        IN  IF at = 0 THEN editor' = editor
            ELSE /\ Len(editor'.left) < at
                 /\ WordStart(line, Len(editor'.left))
                 /\ \A p \in 0..(at - 1) : WordStart(line, p) => p <= Len(editor'.left)
                 /\ getLine(editor') = line]_vars

\* The cursor of a-b1  c stands before b1, the word start left of the blanks
C27_Witness ==
    /\ editor.left = <<"a", "-">>
    /\ editor.right = <<"b", "1", " ", " ", "c">>

\* C28: move-word-forward puts the cursor at the smallest word end right of
\* it and leaves it at the end of the line.
C28_WordForward ==
    [][EditLine(MoveKey.wordForward) =>
        LET line == getLine(editor)
            at == Len(editor.left)
        IN  IF at = Len(line) THEN editor' = editor
            ELSE /\ Len(editor'.left) > at
                 /\ WordEnd(line, Len(editor'.left))
                 /\ \A p \in (at + 1)..Len(line) : WordEnd(line, p) => Len(editor'.left) <= p
                 /\ getLine(editor') = line]_vars

\* The cursor of hello world stands after hello
C28_Witness ==
    /\ editor.left = <<"h", "e", "l", "l", "o">>
    /\ editor.right = <<" ", "w", "o", "r", "l", "d">>

-----------------------------------------------------------------------------
(* Properties of the style resolver *)

\* The entries of the configured ZEEK_HIGHLIGHT_STYLES that are overrides:
\* a string that is not empty
Overrides ==
    LET json == configMap[1].ZEEK_HIGHLIGHT_STYLES[1]
    IN  IF ~json.valid THEN {}
        ELSE {json.entries[k] : k \in {i \in DOMAIN json.entries :
                json.entries[i].style # Undefined /\ json.entries[i].style # Some(<<>>)}}

\* The style of a token type: the override of the configuration if there is
\* one, else the built-in default
StyleInForce(type) ==
    IF \E o \in Overrides : o.tokenType = type
    THEN (CHOOSE o \in Overrides : o.tokenType = type).style[1]
    ELSE DEFAULT_SYNTAX_HIGHLIGHT[type]

-----------------------------------------------------------------------------
(* Properties of parseStyleString *)

\* What each part of the styles stands for: the literal none, or the codes
\* that open and close it (none for a part that is not recognised)
StyleMeaning ==
    <<[part |-> <<"f", "g", "=", "r", "e", "d">>, none |-> FALSE, open |-> <<ESC, "[", "3", "1", "m">>, close |-> <<>>],
      [part |-> <<"b", "g", "=", "#", "f", "f", "8", "8", "0", "0">>, none |-> FALSE, open |-> <<ESC, "[", "4", "8", ";", "2", ";", "2", "5", "5", ";", "1", "3", "6", ";", "0", "m">>, close |-> <<>>],
      [part |-> <<"b", "o", "l", "d">>, none |-> FALSE, open |-> <<ESC, "[", "1", "m">>, close |-> <<ESC, "[", "2", "2", "m">>],
      [part |-> <<" ", "U", "n", "d", "e", "r", "l", "i", "n", "e", " ">>, none |-> FALSE, open |-> <<ESC, "[", "4", "m">>, close |-> <<ESC, "[", "2", "4", "m">>],
      [part |-> <<"f", "g", "=", "1", "2">>, none |-> FALSE, open |-> <<ESC, "[", "3", "8", ";", "5", ";", "1", "2", "m">>, close |-> <<>>],
      [part |-> <<"f", "g", "=", "3", "0", "0">>, none |-> FALSE, open |-> <<>>, close |-> <<>>],
      [part |-> <<"b", "g", "=", "B", "r", "i", "g", "h", "t", "-", "B", "l", "u", "e">>, none |-> FALSE, open |-> <<ESC, "[", "4", "4", ";", "1", "m">>, close |-> <<>>],
      [part |-> <<"n", "o", "n", "e">>, none |-> TRUE, open |-> <<>>, close |-> <<>>],
      [part |-> <<>>, none |-> FALSE, open |-> <<>>, close |-> <<>>],
      [part |-> <<"u", "n", "k", "n", "o", "w", "n", "s", "t", "y", "l", "e">>, none |-> FALSE, open |-> <<>>, close |-> <<>>],
      [part |-> <<"f", "g", "=", "#", "x", "y", "z">>, none |-> FALSE, open |-> <<>>, close |-> <<>>],
      [part |-> <<"f", "g", "=", "c", "o", "n", "s", "t", "r", "u", "c", "t", "o", "r">>, none |-> FALSE, open |-> <<>>, close |-> <<>>],
      [part |-> <<"s", "t", "a", "n", "d", "o", "u", "t">>, none |-> FALSE, open |-> <<ESC, "[", "7", "m">>, close |-> <<ESC, "[", "2", "7", "m">>]>>

\* The rendering of a text the style of the call stands for
StyleExpected(text) ==
    LET parts == SplitOn(styleCall[1], ",")
        meaning == [i \in 1..Len(parts) |->
                        StyleMeaning[CHOOSE k \in DOMAIN StyleMeaning : StyleMeaning[k].part = parts[i]]]
        opens == Flatten([i \in 1..Len(parts) |-> meaning[i].open])
        closes == Flatten([i \in 1..Len(parts) |-> meaning[i].close])
    IN  IF \E i \in 1..Len(parts) : meaning[i].none THEN <<ESC, "[", "0", "m">> \o text
        ELSE opens \o text \o closes

\* C29: parseStyleString returns the hard reset when a part is none, the
\* identity when no part is recognised, and otherwise the function that puts
\* the open codes of the recognised parts before the text and the close
\* codes of the style modifiers after it.
C29_StyleStringResult ==
    IsDefined(styleCall) =>
        /\ IsDefined(styleResult)
        /\ Render(styleResult[1], <<"t", "e", "s", "t">>) = StyleExpected(<<"t", "e", "s", "t">>)

-----------------------------------------------------------------------------
(* Properties of the configuration *)

\* An integer in decimal notation
IsInteger(str) ==
    LET digits == IF Len(str) > 0 /\ str[1] \in {"+", "-"} THEN Tail(str) ELSE str
    IN  Len(digits) > 0 /\ \A i \in 1..Len(digits) : digits[i] \in Digits

\* Two integers separated by one x
IsMenuSize(str) ==
    \E i \in 1..Len(str) :
        str[i] = "x" /\ IsInteger(SubSeq(str, 1, i - 1)) /\ IsInteger(SubSeq(str, i + 1, Len(str)))

\* C30: a ZEEK_MENU_SIZE that is not two integers separated by one x leaves
\* menuWidth and menuHeight as they were, and the two are only changed
\* together, to the two integers of the value.
C30_MalformedSizeIgnored ==
    [][InitConfig =>
        LET size == configMap'[1].ZEEK_MENU_SIZE
            kept == Config'.menuWidth = Config.menuWidth /\ Config'.menuHeight = Config.menuHeight
        IN  IF IsDefined(size) /\ IsMenuSize(size[1])
            THEN /\ NumberString(Config'.menuWidth) \o <<"x">> \o NumberString(Config'.menuHeight)
                        = size[1]
            ELSE kept]_vars

-----------------------------------------------------------------------------
(* Properties of the popup *)

\* A key event is processed
KeyEvent == KeyTab \/ KeyBackspaceEmpty \/ KeyLineEdit \/ KeyMenu

\* filteredItems is the filter of all the items by the current line, or the
\* single no-matches entry when that filter is empty
FilteredFromAllItems ==
    LET f == filterItems(kind, items, getLine(lineEditor))
    IN  filteredItems = IF Len(f) = 0 THEN <<NO_MATCHES>> ELSE f

\* C2: after every key event processed while the popup is open, filteredItems
\* is the filter of all the items by the editor's current line, or the single
\* no-matches entry when that filter is empty.
C2_FilteredFromAllItems == [][KeyEvent /\ pc' = "open" => FilteredFromAllItems']_vars

\* C3: while the popup is open, the selection is a valid index into
\* filteredItems, or filteredItems is exactly the no-matches entry.
C3_SelectionValid ==
    pc = "open" =>
        \/ selection \in 0..(Len(filteredItems) - 1)
        \/ filteredItems = <<NO_MATCHES>>

\* C4: the result handler is called at most once per popup.
C4_HandlerCalledOnce == Len(handled) <= 1

\* C5: whenever the result handler is called, the terminal has left the
\* alternate screen and the cursor is visible.
C5_RestoredBeforeHandler ==
    \A i \in 1..Len(handled) : handled[i].screen = "normal" /\ handled[i].cursor

C5_Witness ==
    /\ Len(handled) = 1
    /\ pc = "exited"
    /\ handled[1].action = "select"

\* The terms of a query: its maximal runs of non-space characters
TermsOf(q) ==
    LET spans == {p \in (1..Len(q)) \X (1..Len(q)) :
                    /\ p[1] <= p[2]
                    /\ \A i \in p[1]..p[2] : q[i] # " "
                    /\ (p[1] = 1 \/ q[p[1] - 1] = " ")
                    /\ (p[2] = Len(q) \/ q[p[2] + 1] = " ")}
    IN  {SubSeq(q, p[1], p[2]) : p \in spans}

\* The candidate's filter text contains every term of the query, case ignored
MatchesQuery(k, c, q) ==
    \A t \in TermsOf(ToLowerCase(q)) : Includes(ToLowerCase(FilterText(k, c)), t)

\* C6: filterItems returns exactly the candidates, in their order and
\* unmodified, whose lower-cased filter text contains every term of the
\* lower-cased query; the empty query returns all candidates.
C6_FilterAllTerms ==
    IsDefined(filterResult) =>
        /\ filterResult[1] = SelectSeq(filterCall.items,
                                       LAMBDA c : MatchesQuery(filterCall.kind, c,
                                                               filterCall.filter))
        /\ filterCall.filter = <<>> => filterResult[1] = filterCall.items

\* A two-term query with an upper-case letter has kept some candidates and
\* removed others
C6_Witness ==
    /\ IsDefined(filterResult)
    /\ Cardinality(TermsOf(filterCall.filter)) = 2
    /\ \E i \in 1..Len(filterCall.filter) : filterCall.filter[i] \in UpperLetters
    /\ Len(filterResult[1]) > 0
    /\ Len(filterResult[1]) < Len(filterCall.items)

\* C7: after each key of the line editor the selection is at the popup's
\* default end of the filtered list: the first item when selectionAtStart is
\* set, the last item otherwise.
C7_SelectionAtDefaultEnd ==
    [][KeyLineEdit =>
        selection' = IF SelectionAtStart(kind) THEN 0 ELSE Len(filteredItems') - 1]_vars

\* The last key event called onNavigate and it answered r
NavAnswered(r) == IsDefined(navCall) /\ navCall[1].result = r

\* C8: Tab with a callback that returns a list: items and filteredItems become
\* the list, the query is empty, the selection is at the default end, the
\* popup is open in the alternate screen and the handler is not called.
C8_TabReplacesItems ==
    [][KeyTab /\ NavAnswered("items")' =>
        /\ navCall'[1].action = "navigate"
        /\ navCall'[1].line = ItemAt(filteredItems, selection)
        /\ items' = navCall'[1].list
        /\ filteredItems' = navCall'[1].list
        /\ getLine(lineEditor') = <<>>
        /\ selection' = (IF SelectionAtStart(kind) THEN 0 ELSE Len(filteredItems') - 1)
        /\ pc' = "open"
        /\ screen' = "alternate"
        /\ handled' = handled]_vars

\* The line a commit on the selected item hands to the handler
CommitLine ==
    IF selection \in 0..(Len(filteredItems) - 1) /\ filteredItems[selection + 1] # NO_MATCHES
    THEN Some(RestoreNewlines(filteredItems[selection + 1]))
    ELSE Undefined

C10_BackspaceNavigatesUp ==
    [][/\ KeyBackspaceEmpty /\ HasOnNavigate(kind) =>
            /\ IsDefined(navCall')
            /\ navCall'[1].action = "navigate-up"
            /\ navCall'[1].line = Undefined
            /\ NavAnswered("items")' =>
                  /\ items' = navCall'[1].list
                  /\ filteredItems' = navCall'[1].list
                  /\ getLine(lineEditor') = <<>>
                  /\ pc' = "open"
                  /\ handled' = handled
            /\ NavAnswered("undefined")' =>
                  handled' = Append(handled, [line |-> Undefined, action |-> "navigate-up",
                                              screen |-> "normal", cursor |-> TRUE])
       /\ getLine(lineEditor) # <<>> /\ IsDefined(navCall') => navCall'[1].action = "navigate"
       /\ KeyLineEdit => navCall' = Undefined /\ handled' = handled]_vars

\* Backspace on an empty query ended the popup through a callback's undefined
C10_Witness ==
    /\ NavAnswered("undefined")
    /\ navCall[1].action = "navigate-up"
    /\ Len(handled) = 1
    /\ handled[1].line = Undefined
    /\ pc = "exited"

\* The call of handleSelection a key event adds, with the terminal restored
Delivered(line, action) ==
    handled' = Append(handled, [line |-> line, action |-> action,
                                screen |-> "normal", cursor |-> TRUE])

\* The selected entry as it stands in filteredItems, unless it is the
\* no-matches entry
SelectedEntry ==
    IF selection \in 0..(Len(filteredItems) - 1) /\ filteredItems[selection + 1] # NO_MATCHES
    THEN Some(filteredItems[selection + 1])
    ELSE Undefined

\* C11 as stated: on commit the handler receives filteredItems[selection]
\* itself, or no line when that entry is the no-matches entry.
C11_CommitDeliversEntry ==
    [][MenuKey(KeypressKey("\r", "return")) => Delivered(SelectedEntry, "select")]_vars

\* C11: on commit the handler receives filteredItems[selection] with every
\* graphic newline restored to a line break, or no line when that entry is the
\* no-matches entry; on cancel it receives no line; and whenever the handler
\* receives no line nothing is written to file descriptor 3.
C11_CommitAndCancel ==
    [][/\ MenuKey(KeypressKey("\r", "return")) => Delivered(CommitLine, "select")
       /\ MenuKey(KeypressKey("^[", "escape")) => Delivered(Undefined, "select")
       /\ (Len(handled') > Len(handled) /\ handled'[Len(handled')].line = Undefined)
           => emitted' = emitted]_vars

\* A commit on an entry with a graphic newline has delivered and emitted the
\* line with a line break
C11_Witness ==
    /\ pc = "exited"
    /\ kind = "history"
    /\ Len(handled) = 1
    /\ handled[1].action = "select"
    /\ handled[1].line = Some(<<"c", "\n", "a">>)
    /\ emitted = <<<<"c", "\n", "a">>>>

\* C12: when Tab on a directory of the file search finds the directory
\* unreadable, the popup stays in its current view: items, filtered items,
\* query and tracked directory are unchanged, the popup is open in the
\* alternate screen and nothing is emitted.
C12_NavFailureAbsorbed ==
    [][(/\ KeyTab
        /\ kind = "fileSearch"
        /\ NavAnswered("undefined")'
        /\ TruthyLine(navCall'[1].line)
        /\ StartsWith(navCall'[1].line[1], <<"d">>)) =>
            /\ UNCHANGED <<items, filteredItems, lineEditor, currentAbsPath, emitted>>
            /\ pc' = "open"
            /\ screen' = "alternate"]_vars

\* C13: when createMenu, showHeader or listenKeyboard raises while the popup
\* is opened, the terminal is in the normal screen with the cursor shown when
\* the failure is reported, and it is not left in the alternate screen.
C13_OpenFailureRestores ==
    /\ \A i \in 1..Len(reported) : reported[i].screen = "normal" /\ reported[i].cursor
    /\ pc = "failed" => Len(reported) = 1 /\ screen = "normal" /\ cursorVisible

\* Opening the file search raised in updateMenu and was reported
C13_Witness ==
    /\ pc = "failed"
    /\ kind = "fileSearch"
    /\ Len(reported) = 1
    /\ filteredItems # items
    /\ screen = "normal"

\* C14: when the history popup opens on the buffers l and r, the line editor
\* holds l to the left and r to the right of the cursor, and when one of them
\* is not empty the items are filtered with the line l + r.
C14_EditorSeededWithBothBuffers ==
    [][\A its \in HistoryLists, b \in Buffers :
        (OpenHistoryPopup /\ OpenMenuPopup("history", its, b.l, b.r) /\ pc' = "open") =>
            /\ lineEditor' = [left |-> b.l, right |-> b.r]
            /\ (b.l # <<>> \/ b.r # <<>>) =>
                    filteredItems' = UpdatedItems("history", its, b.l \o b.r)]_vars

\* C33: a key that is not Tab, not Backspace on an empty query and not a key of
\* the line editor goes to the menu only: the query, the cursor column, the
\* items and the filtered items are as they were.
C33_MenuKeyFrame ==
    [][\A key \in Keys :
        (/\ Listening
         /\ key.name # "tab"
         /\ ~(isBackspace(key.ch) /\ getLine(lineEditor) = <<>>)
         /\ ~isLineEditKey(key.ch, key)
         /\ MenuKey(key)) =>
            /\ getLine(lineEditor') = getLine(lineEditor)
            /\ getCursorPosition(lineEditor') = getCursorPosition(lineEditor)
            /\ items' = items
            /\ filteredItems' = filteredItems]_vars

\* The popup is open on a filtered list with a query, and the selection is not
\* where filtering puts it: a key has moved it
C33_Witness ==
    /\ pc = "open"
    /\ getLine(lineEditor) # <<>>
    /\ Len(filteredItems) > 1
    /\ filteredItems # items
    /\ selection # UpdatedSelection(kind, filteredItems)

\* C38: in a popup without onNavigate, Backspace on an empty query ends the
\* popup: handleSelection is called with no line and the popup is open no more.
C38_BackspaceOnEmptyFinishes ==
    [][(~HasOnNavigate(kind) /\ getLine(lineEditor) = <<>> /\ KeyBackspaceEmpty) =>
            /\ Len(handled') = Len(handled) + 1
            /\ handled'[Len(handled')].line = Undefined
            /\ handled'[Len(handled')].action = "navigate-up"
            /\ pc' # "open"
            /\ emitted' = emitted]_vars

\* The history popup has ended on a Backspace
C38_Witness ==
    /\ kind = "history"
    /\ pc = "exited"
    /\ Len(handled) = 1
    /\ handled[1].action = "navigate-up"
    /\ handled[1].line = Undefined

\* C39: neither handleSelection nor onNavigate is ever called with the
\* no-matches entry as its line.
C39_SentinelNeverHandedOut ==
    /\ \A i \in 1..Len(handled) : handled[i].line # Some(NO_MATCHES)
    /\ IsDefined(navCall) => navCall[1].line # Some(NO_MATCHES)

\* C34: in the file search a key changes the tracked directory only to a
\* directory that onNavigate has listed and whose list it has returned; when
\* onNavigate returns no list the tracked directory is as it was; Backspace at
\* the root leaves the tracked directory at the root, and the list returned is
\* the list of the root.
C34_TrackedDirectory ==
    [][(kind = "fileSearch" /\ pc = "open") =>
            /\ currentAbsPath' # currentAbsPath =>
                    /\ NavAnswered("items")'
                    /\ navCall'[1].list = getFileList(currentAbsPath')
                    /\ items' = getFileList(currentAbsPath')
            /\ ~NavAnswered("items")' => currentAbsPath' = currentAbsPath
            /\ (KeyBackspaceEmpty /\ currentAbsPath = RootPath) =>
                    /\ currentAbsPath' = RootPath
                    /\ ~NavAnswered("undefined")'
                    /\ NavAnswered("items")' => items' = getFileList(RootPath)]_vars

\* Tab on a directory whose listing failed: the file search is still open on
\* the directory it was in
C34_Witness ==
    /\ kind = "fileSearch"
    /\ pc = "open"
    /\ NavAnswered("undefined")
    /\ navCall[1].action = "navigate"
    /\ TruthyLine(navCall[1].line)
    /\ StartsWith(navCall[1].line[1], <<"d">>)
    /\ currentAbsPath = <<DirAB>>
    /\ items = getFileList(<<DirAB>>)

-----------------------------------------------------------------------------
(* Properties of the directory history *)

\* The index of the last call that stored directory d
LastStored(d) == CHOOSE i \in 1..Len(storedDirs) : storedDirs[i] = d /\ \A j \in (i + 1)..Len(storedDirs) : storedDirs[j] # d

\* The stored directories that the history still holds: the maxLines most
\* recently stored ones
KeptDirs(maxLines) ==
    LET stored == {storedDirs[i] : i \in 1..Len(storedDirs)}
    IN  {d \in stored : Cardinality({e \in stored : LastStored(e) > LastStored(d)}) < maxLines}

\* C31: after any calls of addCwdToHistory on an empty history the list read
\* from the file has no directory twice, has at most maxDirHistoryLines
\* entries, ends with the directory stored last, and holds the most recently
\* stored directories in the order in which each was last stored.
C31_DirHistoryList ==
    LET list == readDirHistoryFile(dirHistoryFile)
        kept == KeptDirs(Config.maxDirHistoryLines)
    IN  Len(storedDirs) > 0 =>
            /\ \A i, j \in 1..Len(list) : list[i] = list[j] => i = j
            /\ Len(list) <= Config.maxDirHistoryLines
            /\ Len(list) > 0 /\ list[Len(list)] = storedDirs[Len(storedDirs)]
            /\ {list[i] : i \in 1..Len(list)} = kept
            /\ \A i, j \in 1..Len(list) : i < j => LastStored(list[i]) < LastStored(list[j])

-----------------------------------------------------------------------------
(* Properties of the menu's geometry *)

\* C36: the width is between 0 and the columns of the terminal, the height
\* between 0 and the smaller of the rows of the terminal and the number of
\* candidates; a positive configured size is a cap, a negative one leaves that
\* many cells of the terminal free.
C36_DimensionsInRange ==
    IsDefined(dimensions) =>
        LET call == dimCall[1]
            dim == dimensions[1]
        IN  /\ dim.width \in 0..call.columns
            /\ dim.height \in 0..MathMin(call.rows, Len(call.items))
            /\ Config.menuWidth > 0 => dim.width <= Config.menuWidth
            /\ Config.menuWidth < 0 => dim.width <= call.columns + Config.menuWidth
            /\ Config.menuHeight > 0 => dim.height <= Config.menuHeight
            /\ Config.menuHeight < 0 => dim.height <= call.rows + Config.menuHeight

-----------------------------------------------------------------------------
(* Properties of the word under the cursor *)

=============================================================================
